---- MODULE Spec2Model ----
(***************************************************************************)
(* aya-dance-server: the signed URL token codec (src/src/cdn/mod.rs), the  *)
(* on-disk cache index, the /v/ and /files/ HTTP routes                    *)
(* (src/src/http/mod.rs) and the stream-through Fetcher                    *)
(* (src/src/cdn/proxy/mod.rs).                                             *)
(*                                                                         *)
(* A Rust String is a sequence of one-character strings; a byte string is  *)
(* a sequence of numbers 0..255.  An MD5 digest in lowercase hex is one    *)
(* opaque element that is never a separator character; MD5 is injective    *)
(* (collision-free).                                                       *)
(***************************************************************************)
EXTENDS Integers, Sequences, FiniteSets, TLC

VARIABLES
  now,        \* chrono::Utc::now().timestamp(), Unix seconds
  held,       \* the token a client holds: issued by serve_token or self-made
  verdict,    \* the last verify_token call: its arguments, clock and result
  video,      \* {video_root}/{id}/video.mp4, per song id
  metadata,   \* {video_root}/{id}/metadata.json, per song id
  overrideFile, \* {override_root}/{id}.mp4, per song id
  tmpPath,    \* {cache_root}: which file each download_tmp path names
  inode,      \* the bytes of the temp file each Fetcher session created
  sess,       \* the Fetcher sessions (one /files/ request each)
  faults,     \* how many filesystem operations have failed so far
  resp,       \* the last response of the /v/, /files/ and token routes
  ranged,     \* one get_range call: its file, its response and its body stream
  timed,      \* one TimedMap and the calls running on it
  compensator, \* the audio compensator: its workers, its lock and its files
  forward     \* the SNI forwarder: one accepted connection

cdnVars == <<video, metadata, overrideFile, tmpPath, inode, sess, faults, resp>>

otherVars == <<ranged, timed, compensator, forward>>

vars == <<now, held, verdict, cdnVars, otherVars>>

\* the value of ranged, timed, compensator and forward where they play no part
Unused == [pc |-> "unused"]

----------------------------------------------------------------------------
(* Bounds of the model *)

MaxNow == 3

\* CdnServiceImpl.token_valid_seconds, a configuration value
TokenValidSeconds == 1

\* bytes one Fetcher session receives from its upstream at most
MaxBody == 2

\* concurrent Fetcher sessions
NumSessions == 2

\* filesystem operations that fail in one run
MaxFaults == 1

----------------------------------------------------------------------------
(* Strings *)

Digits == <<"0", "1", "2", "3", "4", "5", "6", "7", "8", "9">>

IsDigit(c) == \E i \in 1..Len(Digits) : Digits[i] = c

DigitVal(c) == (CHOOSE i \in 1..Len(Digits) : Digits[i] = c) - 1

Radix == 10

\* format!("{}", n) of an integer
RECURSIVE ToDecimal(_)
ToDecimal(n) ==
  IF n < 0 THEN <<"-">> \o ToDecimal(-n)
  ELSE IF n < Radix THEN <<Digits[n + 1]>>
  ELSE ToDecimal(n \div Radix) \o <<Digits[(n % Radix) + 1]>>

RECURSIVE DigitsValue(_)
DigitsValue(s) ==
  IF s = <<>> THEN 0
  ELSE DigitsValue(SubSeq(s, 1, Len(s) - 1)) * Radix + DigitVal(s[Len(s)])

AllDigits(s) == s # <<>> /\ \A i \in 1..Len(s) : IsDigit(s[i])

NoParse == [ok |-> FALSE, val |-> 0]

\* i64::from_str_radix(s, 10): an optional sign, then at least one digit
from_str_radix(s) ==
  LET signed == s # <<>> /\ s[1] \in {"+", "-"}
      body   == IF signed THEN Tail(s) ELSE s
  IN IF ~AllDigits(body) THEN NoParse
     ELSE [ok  |-> TRUE,
           val |-> IF signed /\ s[1] = "-" THEN -DigitsValue(body)
                   ELSE DigitsValue(body)]

\* str::parse::<u32>(): an optional '+', then at least one digit
parse_u32(s) ==
  LET body == IF s # <<>> /\ s[1] = "+" THEN Tail(s) ELSE s
  IN IF AllDigits(body) THEN [ok |-> TRUE, val |-> DigitsValue(body)] ELSE NoParse

\* str::split(sep): the parts between the separators; an empty string has
\* one empty part
RECURSIVE Split(_, _)
Split(s, sep) ==
  IF \A i \in 1..Len(s) : s[i] # sep THEN <<s>>
  ELSE LET k == CHOOSE i \in 1..Len(s) :
                  s[i] = sep /\ \A j \in 1..(i - 1) : s[j] # sep
       IN <<SubSeq(s, 1, k - 1)>> \o Split(SubSeq(s, k + 1, Len(s)), sep)

EndsWith(s, suffix) ==
  /\ Len(s) >= Len(suffix)
  /\ SubSeq(s, Len(s) - Len(suffix) + 1, Len(s)) = suffix

\* str::trim_end_matches(suffix): the suffix is removed as often as it matches
RECURSIVE trim_end_matches(_, _)
trim_end_matches(s, suffix) ==
  IF suffix # <<>> /\ EndsWith(s, suffix)
  THEN trim_end_matches(SubSeq(s, 1, Len(s) - Len(suffix)), suffix)
  ELSE s

\* str::replace(from, to) for single characters
replace(s, from, to) == [i \in 1..Len(s) |-> IF s[i] = from THEN to ELSE s[i]]

\* md5::compute(x) printed as lowercase hex: one element, injective in x
MD5Hex(x) == <<ToString(x)>>

----------------------------------------------------------------------------
(* URL-safe base64 without padding (the base64_url crate) *)

Base64UrlAlphabet ==
  <<"A", "B", "C", "D", "E", "F", "G", "H", "I", "J", "K", "L", "M",
    "N", "O", "P", "Q", "R", "S", "T", "U", "V", "W", "X", "Y", "Z",
    "a", "b", "c", "d", "e", "f", "g", "h", "i", "j", "k", "l", "m",
    "n", "o", "p", "q", "r", "s", "t", "u", "v", "w", "x", "y", "z",
    "0", "1", "2", "3", "4", "5", "6", "7", "8", "9", "-", "_">>

\* the 6-bit groups of a byte string, most significant bit first
RECURSIVE Sextets(_)
Sextets(b) ==
  IF Len(b) = 0 THEN <<>>
  ELSE IF Len(b) = 1 THEN <<b[1] \div 4, (b[1] % 4) * 16>>
  ELSE IF Len(b) = 2
    THEN <<b[1] \div 4, (b[1] % 4) * 16 + b[2] \div 16, (b[2] % 16) * 4>>
  ELSE <<b[1] \div 4, (b[1] % 4) * 16 + b[2] \div 16,
         (b[2] % 16) * 4 + b[3] \div 64, b[3] % 64>>
       \o Sextets(SubSeq(b, 4, Len(b)))

base64_url_encode(b) ==
  LET s == Sextets(b) IN [i \in 1..Len(s) |-> Base64UrlAlphabet[s[i] + 1]]

----------------------------------------------------------------------------
(* Token codec: src/src/cdn/mod.rs *)

\* IpAddr::to_string(): dotted decimal for V4; a V6 address carries its text
IpToString(ip) ==
  IF ip.kind = "V4"
  THEN ToDecimal(ip.octets[1]) \o <<".">> \o ToDecimal(ip.octets[2]) \o <<".">>
       \o ToDecimal(ip.octets[3]) \o <<".">> \o ToDecimal(ip.octets[4])
  ELSE ip.text

encode_token(sign, sign_ts, rand, uid) ==
  sign_ts \o <<"-">> \o rand \o <<"-">> \o uid \o <<"-">> \o sign

Malformed == [ok |-> FALSE, sign |-> <<>>, sign_ts |-> <<>>, rand |-> <<>>, uid |-> <<>>]

decode_token(token) ==
  LET parts == Split(token, "-")
  IN IF Len(parts) < 4 THEN Malformed
     ELSE [ok |-> TRUE, sign |-> parts[4], sign_ts |-> parts[1],
           rand |-> parts[2], uid |-> parts[3]]

generate_sign_ts(ts) == ToDecimal(ts)

decode_sign_ts(ts) == from_str_radix(ts)

generate_sign_without_checksum(secret, id, checksum, sign_ts, rand, uid) ==
  MD5Hex(<<"/", "v", "/">> \o ToDecimal(id) \o <<".", "m", "p", "4">>
         \o <<"-">> \o sign_ts \o <<"-">> \o rand \o <<"-">> \o uid
         \o <<"-">> \o secret)

generate_sign(secret, id, checksum, sign_ts, rand, uid) ==
  LET uri == <<"/", "v", "/">> \o ToDecimal(id) \o <<"-">> \o checksum
             \o <<".", "m", "p", "4">>
      sign_plain == uri \o <<"-">> \o sign_ts \o <<"-">> \o rand \o <<"-">> \o uid
                    \o <<"-">> \o secret
  IN MD5Hex(sign_plain)

\* the age of the token is not looked at
verify_token_without_expiry(token, secret, id, checksum, token_valid_seconds, clock) ==
  LET d == decode_token(token)
      sign_verify == generate_sign(secret, id, checksum, d.sign_ts, d.rand, d.uid)
  IN IF ~d.ok THEN "malformed"
     ELSE IF sign_verify # d.sign THEN "mismatch"
     ELSE "Ok"

verify_token_expiry_off_by_one(token, secret, id, checksum, token_valid_seconds, clock) ==
  LET d == decode_token(token)
      sign_verify == generate_sign(secret, id, checksum, d.sign_ts, d.rand, d.uid)
      provided_ts == decode_sign_ts(d.sign_ts)
  IN IF ~d.ok THEN "malformed"
     ELSE IF sign_verify # d.sign THEN "mismatch"
     ELSE IF ~provided_ts.ok THEN "bad_ts"
     ELSE IF clock - provided_ts.val >= token_valid_seconds THEN "expired"
     ELSE "Ok"

\* verify_token at clock value `clock`: "Ok" or the error it returns
verify_token(token, secret, id, checksum, token_valid_seconds, clock) ==
  LET d == decode_token(token)
      sign_verify == generate_sign(secret, id, checksum, d.sign_ts, d.rand, d.uid)
      provided_ts == decode_sign_ts(d.sign_ts)
  IN IF ~d.ok THEN "malformed"
     ELSE IF sign_verify # d.sign THEN "mismatch"
     ELSE IF ~provided_ts.ok THEN "bad_ts"
     ELSE IF clock - provided_ts.val > token_valid_seconds THEN "expired"
     ELSE "Ok"

\* the encoding is padded with '=' to a multiple of four characters
generate_rand_padded(user_agent) ==
  LET e == base64_url_encode(user_agent)
  IN e \o [i \in 1..((4 - (Len(e) % 4)) % 4) |-> "="]

generate_rand_from_user_agent(user_agent) ==
  base64_url_encode(user_agent)

generate_uid_from_client_ip(remote) == replace(IpToString(remote), ".", "_")

\* the Hit branch of serve_token: the token for an entry with this checksum
issue_token(secret, id, checksum, remote, user_agent, ts) ==
  LET sign_ts == generate_sign_ts(ts)
      rand == generate_rand_from_user_agent(user_agent)
      uid == generate_uid_from_client_ip(remote)
      sign == generate_sign(secret, id, checksum, sign_ts, rand, uid)
  IN encode_token(sign, sign_ts, rand, uid)

\* what a client holds before it has a token, and the verdict before any
\* verify_token call
NoRemote == [kind |-> "none", octets |-> <<>>, text |-> <<>>]

NoToken == [kind |-> "none", token |-> <<>>, secret |-> <<>>, id |-> 0,
            checksum |-> <<>>, user_agent |-> <<>>, remote |-> NoRemote, ts |-> -1]

NoVerdict == [token |-> <<>>, secret |-> <<>>, id |-> 0, checksum |-> <<>>,
              clock |-> 0, result |-> "none"]

----------------------------------------------------------------------------
(* Cache index on the filesystem: src/src/cdn/mod.rs *)

SongIds == {1}

Sessions == 1..NumSessions

\* a file: whether the path exists, and its bytes
NoFile == [exists |-> FALSE, data |-> <<>>]

File(data) == [exists |-> TRUE, data |-> data]

\* metadata.json: whether it exists, whether it parses as a Song, and the
\* Song's checksum (None when the key is missing)
NoMetadata == [exists |-> FALSE, parses |-> FALSE, has_checksum |-> FALSE,
               checksum |-> <<>>]

Metadata(checksum) == [exists |-> TRUE, parses |-> TRUE, has_checksum |-> TRUE,
                       checksum |-> checksum]

BrokenMetadata == [exists |-> TRUE, parses |-> FALSE, has_checksum |-> FALSE,
                   checksum |-> <<>>]

\* a metadata.json that parses and has no checksum key
MetadataWithoutChecksum == [exists |-> TRUE, parses |-> TRUE, has_checksum |-> FALSE,
                            checksum |-> <<>>]

\* the override file: whether it exists, and its last-modified Unix seconds
NoOverride == [exists |-> FALSE, mtime |-> 0]

\* CdnServiceImpl.video_path, video_override_path, cache_path,
\* token_sign_secret
video_path == <<"v">>

video_override_path == <<"o">>

cache_path == <<"c">>

token_sign_secret == <<"k">>

\* the three paths get_video_file_path builds for a song
metadata_json(id) ==
  video_path \o <<"/">> \o ToDecimal(id)
    \o <<"/", "m", "e", "t", "a", "d", "a", "t", "a", ".", "j", "s", "o", "n">>

video_mp4(id) ==
  video_path \o <<"/">> \o ToDecimal(id) \o <<"/", "v", "i", "d", "e", "o", ".", "m", "p", "4">>

override_mp4(id) == video_override_path \o <<"/">> \o ToDecimal(id) \o <<".", "m", "p", "4">>

\* the canonical pair looked up before the override
get_video_file_path_override_last(id) ==
  IF metadata[id].exists /\ video[id].exists THEN "Video"
  ELSE IF overrideFile[id].exists THEN "VideoOverride"
  ELSE "Unavailable"

\* get_video_file_path: the override first, then the canonical pair
get_video_file_path(id) ==
  IF overrideFile[id].exists THEN "VideoOverride"
  ELSE IF metadata[id].exists /\ video[id].exists THEN "Video"
  ELSE "Unavailable"

NoChecksum == [ok |-> FALSE, checksum |-> <<>>]

\* get_video_file_checksum_by_cached_video
get_video_file_checksum_by_cached_video(id, cached_video) ==
  IF cached_video = "VideoOverride"
  THEN [ok |-> TRUE,
        checksum |-> <<"o", "v", "e", "r", "r", "i", "d", "e">>
                     \o ToDecimal(overrideFile[id].mtime)]
  ELSE IF metadata[id].exists /\ metadata[id].parses /\ metadata[id].has_checksum
    THEN [ok |-> TRUE, checksum |-> metadata[id].checksum]
    ELSE NoChecksum

download_tmp_without_port(port, file) == cache_path \o <<"/">> \o <<"_">> \o file

\* the paths the CachedVideoFile of get_video_file_path carries
video_file(id) ==
  IF get_video_file_path(id) = "VideoOverride" THEN override_mp4(id) ELSE video_mp4(id)

metadata_json_file(id) ==
  IF get_video_file_path(id) = "VideoOverride" THEN <<>> ELSE metadata_json(id)

\* serve_local_cache: download_tmp_file = "{cache_path}/{port}_{file}"
download_tmp_file(port, file) ==
  cache_path \o <<"/">> \o ToDecimal(port) \o <<"_">> \o file

\* the size of video.mp4 is not compared with the expected size
serve_local_cache_any_size(id, file, md5, size, port) ==
  LET cached == get_video_file_path(id)
      available ==
        IF cached = "VideoOverride" THEN TRUE
        ELSE IF cached = "Video"
          THEN /\ metadata[id].parses
               /\ metadata[id].has_checksum
               /\ metadata[id].checksum = md5
          ELSE FALSE
  IN [download_tmp |-> download_tmp_file(port, file), cached |-> cached,
      video_file |-> video_file(id), metadata_json_file |-> metadata_json_file(id),
      available |-> available]

\* serve_local_cache: the temp path, the resolved entry and whether the local
\* cache satisfies the request
serve_local_cache(id, file, md5, size, port) ==
  LET cached == get_video_file_path(id)
      available ==
        IF cached = "VideoOverride" THEN TRUE
        ELSE IF cached = "Video"
          THEN /\ Len(video[id].data) = size
               /\ metadata[id].parses
               /\ metadata[id].has_checksum
               /\ metadata[id].checksum = md5
          ELSE FALSE
  IN [download_tmp |-> download_tmp_file(port, file), cached |-> cached,
      video_file |-> video_file(id), metadata_json_file |-> metadata_json_file(id),
      available |-> available]

\* serve_file_no_auth: the entry is resolved without any token
serve_file_no_auth(id, token, checksum, clock) ==
  [verified |-> FALSE, result |-> "Ok", cached |-> get_video_file_path(id)]

\* serve_file_auth: verify_token, then the entry is resolved
serve_file_auth(id, token, checksum, clock) ==
  LET v == verify_token(token, token_sign_secret, id, checksum,
                        TokenValidSeconds, clock)
  IN IF v # "Ok" THEN [verified |-> FALSE, result |-> v, cached |-> "Unavailable"]
     ELSE [verified |-> TRUE, result |-> "Ok", cached |-> get_video_file_path(id)]

\* every write lands at the start of the file
WriteAtStart(data, pos, bytes) == bytes \o data

\* a write of `bytes` at offset `pos` of a file holding `data`; a gap is
\* filled with zero bytes
WriteAt(data, pos, bytes) ==
  LET n == IF pos + Len(bytes) > Len(data) THEN pos + Len(bytes) ELSE Len(data)
  IN [i \in 1..n |->
        IF i > pos /\ i <= pos + Len(bytes) THEN bytes[i - pos]
        ELSE IF i <= Len(data) THEN data[i]
        ELSE 0]

----------------------------------------------------------------------------
(* The Fetcher: src/src/http/mod.rs (the /files/ route) and                *)
(* src/src/cdn/proxy/mod.rs (response_to_reply, inspecting,                *)
(* publish_to_local_videos)                                                *)

Ports == {7, 70}

Basenames == {<<"1", "-", "a">>, <<"1", "-", "b">>}

\* the source port of a session that runs on its own
OnePort == {7}

\* the one file name the concurrent sessions ask for
OneBasename == {<<"1", "-", "a">>}

\* the e and s query parameters a client can send
Etags == {MD5Hex(<<1>>), MD5Hex(<<1, 2>>)}

\* the same for two sessions at once: bodies 1 and 1 1
ConcurrentChunks == {<<1>>, <<1, 1>>}

ConcurrentEtags == {MD5Hex(<<1>>), MD5Hex(<<1, 1>>)}

Sizes == {1, 2}

TmpPaths == {download_tmp_file(port, file) : port \in Ports, file \in Basenames}

IdleSession ==
  [pc |-> "idle", id |-> 0, port |-> 0, file |-> <<>>, etag |-> <<>>,
   expected_size |-> 0, download_tmp |-> <<>>, fd |-> 0, pos |-> 0,
   total_written |-> 0, recv |-> <<>>, sent |-> <<>>, chunk |-> <<>>,
   src |-> 0, cpos |-> 0, published |-> FALSE, last |-> "none", end |-> "none",
   pre_video |-> NoFile, pre_metadata |-> NoMetadata, wfail |-> FALSE,
   pre_override |-> NoOverride, cache_file |-> <<>>, metadata_json |-> <<>>,
   cached |-> "none"]

NoResp == [route |-> "none", status |-> 0, rejection |-> "none", id |-> 0,
           cached |-> "Unavailable", verified |-> FALSE, token |-> <<>>,
           url_checksum |-> <<>>, entry_checksum |-> NoChecksum,
           location |-> <<>>, path |-> <<>>, auth |-> FALSE, in_time |-> FALSE,
           resolved |-> "none"]

\* the cache holds nothing, or one consistent canonical entry
InitCache ==
  /\ video \in {[id \in SongIds |-> NoFile], [id \in SongIds |-> File(<<1>>)]}
  /\ metadata = [id \in SongIds |->
                   IF video[id].exists THEN Metadata(MD5Hex(video[id].data))
                   ELSE NoMetadata]
  /\ overrideFile \in {[id \in SongIds |-> NoOverride],
                       [id \in SongIds |-> [exists |-> TRUE, mtime |-> 0]]}
  /\ tmpPath = [p \in TmpPaths |-> 0]
  /\ inode = [s \in Sessions |-> <<>>]
  /\ sess = [s \in Sessions |-> IdleSession]
  /\ faults = 0
  /\ resp = NoResp
  /\ compensator = Unused
  /\ forward = Unused
  /\ ranged = Unused
  /\ timed = Unused

\* inspecting: `yield bytes`, then the loop waits for the next chunk
Yield(r) == [r EXCEPT !.pc = "streaming", !.sent = @ \o r.chunk, !.chunk = <<>>]

\* GET /files/{date}/{file}?e={e}&s={size} from a client whose TCP source
\* port is `port`: the handler up to the upstream request
FilesRequest(s, port, file, e, size) ==
  LET id == parse_u32(Head(Split(file, "-")))
      c == serve_local_cache(id.val, file, e, size, port)
  IN /\ sess[s].pc = "idle"
     /\ id.ok => id.val \in SongIds
     /\ IF ~id.ok
        THEN /\ resp' = [NoResp EXCEPT !.route = "files", !.status = 400,
                                       !.rejection = "BadVideoId"]
             /\ sess' = [sess EXCEPT ![s] = [@ EXCEPT !.pc = "done",
                                                      !.end = "rejected"]]
        ELSE IF c.available
        THEN /\ resp' = [NoResp EXCEPT
                           !.route = "files", !.status = 200, !.id = id.val,
                           !.cached = c.cached, !.url_checksum = e,
                           !.entry_checksum =
                             get_video_file_checksum_by_cached_video(id.val, c.cached)]
             /\ sess' = [sess EXCEPT ![s] =
                  [@ EXCEPT !.pc = "done", !.end = "hit", !.id = id.val,
                            !.port = port, !.file = file, !.etag = e,
                            !.expected_size = size,
                            !.download_tmp = c.download_tmp,
                            !.cached = c.cached,
                            !.cache_file = c.video_file,
                            !.metadata_json = c.metadata_json_file,
                            !.pre_video = video[id.val],
                            !.pre_metadata = metadata[id.val],
                            !.pre_override = overrideFile[id.val]]]
        ELSE /\ resp' = resp
             /\ sess' = [sess EXCEPT ![s] =
                  [@ EXCEPT !.pc = "dispatched", !.id = id.val, !.port = port,
                            !.file = file, !.etag = e, !.expected_size = size,
                            !.download_tmp = c.download_tmp,
                            !.cached = c.cached,
                            !.cache_file = c.video_file,
                            !.metadata_json = c.metadata_json_file,
                            !.pre_video = video[id.val],
                            !.pre_metadata = metadata[id.val],
                            !.pre_override = overrideFile[id.val]]]
     /\ UNCHANGED <<video, metadata, overrideFile, tmpPath, inode>>

\* response_to_reply: the upstream answered; download_tmp is opened with
\* write and create (neither truncate nor append)
UpstreamResponse(s, ok) ==
  LET path == sess[s].download_tmp IN
  /\ sess[s].pc = "dispatched"
  /\ IF ~ok
     THEN /\ sess' = [sess EXCEPT ![s] = [@ EXCEPT !.pc = "done", !.end = "no_tee"]]
          /\ UNCHANGED <<tmpPath, inode>>
     ELSE IF tmpPath[path] # 0
     THEN /\ sess' = [sess EXCEPT ![s] = [@ EXCEPT !.pc = "streaming",
                                                   !.fd = tmpPath[path]]]
          /\ UNCHANGED <<tmpPath, inode>>
     ELSE /\ tmpPath' = [tmpPath EXCEPT ![path] = s]
          /\ inode' = [inode EXCEPT ![s] = <<>>]
          /\ sess' = [sess EXCEPT ![s] = [@ EXCEPT !.pc = "streaming", !.fd = s]]
  /\ UNCHANGED <<video, metadata, overrideFile, resp>>

\* inspecting: the upstream yields Ok(bytes); write_all to the temp file
Chunk(s, bytes, ok) ==
  LET r == sess[s]
      got == [r EXCEPT !.recv = @ \o bytes, !.chunk = bytes]
      written == [got EXCEPT !.pos = @ + Len(bytes),
                             !.total_written = @ + Len(bytes)]
  IN /\ r.pc = "streaming"
     /\ Len(r.recv) + Len(bytes) <= MaxBody
     /\ IF ok
        THEN /\ inode' = [inode EXCEPT ![r.fd] = WriteAt(@, r.pos, bytes)]
             /\ sess' = [sess EXCEPT ![s] =
                  IF written.total_written >= r.expected_size
                  THEN [written EXCEPT !.pc = "sync"]
                  ELSE Yield(written)]
        ELSE /\ inode' = inode
             /\ sess' = [sess EXCEPT ![s] = Yield([got EXCEPT !.wfail = TRUE])]
     /\ UNCHANGED <<video, metadata, overrideFile, tmpPath, resp>>

\* inspecting: file.sync_all() once total_written >= expected_size
Sync(s, ok) ==
  /\ sess[s].pc = "sync"
  /\ sess' = [sess EXCEPT ![s] =
       IF ok THEN [@ EXCEPT !.pc = "publish"]
       ELSE Yield([@ EXCEPT !.last = "IoError"])]
  /\ UNCHANGED <<video, metadata, overrideFile, tmpPath, inode, resp>>

\* publish_to_local_videos: the MD5 of the bytes at download_tmp against etag
PublishVerify(s) ==
  LET r == sess[s] IN
  /\ r.pc = "publish"
  /\ sess' = [sess EXCEPT ![s] =
       IF tmpPath[r.download_tmp] = 0 THEN Yield([r EXCEPT !.last = "IoError"])
       ELSE IF MD5Hex(inode[tmpPath[r.download_tmp]]) # r.etag
         THEN Yield([r EXCEPT !.last = "ChecksumMismatch"])
       ELSE [r EXCEPT !.pc = "copy_open"]]
  /\ UNCHANGED <<video, metadata, overrideFile, tmpPath, inode, resp>>

\* std::fs::copy(download_tmp, cache_file): the source is opened, the
\* destination is created or truncated
CopyOpen(s, ok) ==
  LET r == sess[s] IN
  /\ r.pc = "copy_open"
  /\ tmpPath[r.download_tmp] = 0 => ok
  /\ IF tmpPath[r.download_tmp] = 0 \/ ~ok
     THEN /\ sess' = [sess EXCEPT ![s] = Yield([r EXCEPT !.last = "IoError"])]
          /\ video' = video
     ELSE /\ sess' = [sess EXCEPT ![s] = [r EXCEPT !.pc = "copying", !.cpos = 0,
                                                   !.src = tmpPath[r.download_tmp]]]
          /\ video' = [video EXCEPT ![r.id] = File(<<>>)]
  /\ UNCHANGED <<metadata, overrideFile, tmpPath, inode, resp>>

\* std::fs::copy: one more byte reaches video.mp4; after the last byte
\* std::fs::remove_file(download_tmp)
CopyStep(s, ok) ==
  LET r == sess[s] IN
  /\ r.pc = "copying"
  /\ IF r.cpos < Len(inode[r.src])
     THEN /\ IF ok
             THEN /\ video' = [video EXCEPT ![r.id] =
                                 File(WriteAt(@.data, r.cpos, <<inode[r.src][r.cpos + 1]>>))]
                  /\ sess' = [sess EXCEPT ![s] = [r EXCEPT !.cpos = @ + 1]]
             ELSE /\ video' = video
                  /\ sess' = [sess EXCEPT ![s] = Yield([r EXCEPT !.last = "IoError"])]
          /\ tmpPath' = tmpPath
     ELSE /\ ok
          /\ video' = video
          /\ tmpPath' = [tmpPath EXCEPT ![r.download_tmp] = 0]
          /\ sess' = [sess EXCEPT ![s] = [r EXCEPT !.pc = "write_meta"]]
  /\ UNCHANGED <<metadata, overrideFile, inode, resp>>

\* publish_to_local_videos: tokio::fs::write(metadata_json, json); a failed
\* write leaves the file as it was or created and incomplete
WriteMetadata(s, ok, torn) ==
  LET r == sess[s] IN
  /\ r.pc = "write_meta"
  /\ ok => ~torn
  /\ IF ok
     THEN /\ metadata' = [metadata EXCEPT ![r.id] = Metadata(r.etag)]
          /\ sess' = [sess EXCEPT ![s] =
               Yield([r EXCEPT !.last = "Published", !.published = TRUE])]
     ELSE /\ metadata' = IF torn THEN [metadata EXCEPT ![r.id] = BrokenMetadata]
                         ELSE metadata
          /\ sess' = [sess EXCEPT ![s] = Yield([r EXCEPT !.last = "IoError"])]
  /\ UNCHANGED <<video, overrideFile, tmpPath, inode, resp>>

\* inspecting: the upstream yields Err(e): the loop breaks, the stream ends
UpstreamError(s) ==
  /\ sess[s].pc = "streaming"
  /\ sess' = [sess EXCEPT ![s] = [@ EXCEPT !.pc = "done", !.end = "UpstreamError"]]
  /\ UNCHANGED <<video, metadata, overrideFile, tmpPath, inode, resp>>

\* inspecting: the upstream body ends (next() is None): the only select!
\* branch is disabled and there is no else branch
UpstreamEnd(s) ==
  /\ sess[s].pc = "streaming"
  /\ sess' = [sess EXCEPT ![s] = [@ EXCEPT !.pc = "done", !.end = "panicked"]]
  /\ UNCHANGED <<video, metadata, overrideFile, tmpPath, inode, resp>>

\* the sessions are interchangeable: they start in the order of their numbers
StartsInOrder(s) ==
  sess[s].pc = "idle" => \A t \in Sessions : t < s => sess[t].pc # "idle"

\* ok = FALSE makes the filesystem operation of a step fail; the run has a
\* budget of MaxFaults such failures
Fault(ok) ==
  /\ ~ok => faults < MaxFaults
  /\ faults' = IF ok THEN faults ELSE faults + 1
  /\ UNCHANGED <<now, held, verdict, otherVars>>

\* one step of session s
Fetcher(s, ok, ports, files, etags, sizes, chunks) ==
  \/ \E port \in ports, file \in files, e \in etags, size \in sizes :
       ok /\ StartsInOrder(s) /\ FilesRequest(s, port, file, e, size) /\ Fault(ok)
  \/ UpstreamResponse(s, ok) /\ Fault(ok)
  \/ \E bytes \in chunks : Chunk(s, bytes, ok) /\ Fault(ok)
  \/ Sync(s, ok) /\ Fault(ok)
  \/ ok /\ PublishVerify(s) /\ Fault(ok)
  \/ CopyOpen(s, ok) /\ Fault(ok)
  \/ CopyStep(s, ok) /\ Fault(ok)
  \/ \E torn \in BOOLEAN : WriteMetadata(s, ok, torn) /\ Fault(ok)
  \/ ok /\ UpstreamError(s) /\ Fault(ok)
  \/ ok /\ UpstreamEnd(s) /\ Fault(ok)

InitFetch ==
  /\ now = 0
  /\ held = NoToken
  /\ verdict = NoVerdict
  /\ InitCache

NextFetch ==
  \E s \in Sessions, ok \in BOOLEAN :
    Fetcher(s, ok, Ports, OneBasename, ConcurrentEtags, Sizes, ConcurrentChunks)

SpecFetch == InitFetch /\ [][NextFetch]_vars

\* one session on its own, with failing filesystem operations; its upstream
\* body comes in chunks of one or two bytes
TeeChunks == {<<1>>, <<2>>, <<1, 2>>}

NextTee ==
  \E ok \in BOOLEAN : Fetcher(1, ok, OnePort, OneBasename, Etags, Sizes, TeeChunks)

SpecTee == InitFetch /\ [][NextTee]_vars

\* a file name whose part before the first '-' is not a song id
BadBasenames == {<<"x", "-", "a">>}

\* the sessions compute their temp paths and open them, nothing is streamed
NextDispatch ==
  \/ \E s \in Sessions, port \in Ports, file \in Basenames \cup BadBasenames,
        e \in Etags, size \in Sizes :
       FilesRequest(s, port, file, e, size) /\ UNCHANGED <<now, held, verdict, faults, otherVars>>
  \/ \E s \in Sessions, ok \in BOOLEAN :
       UpstreamResponse(s, ok) /\ UNCHANGED <<now, held, verdict, faults, otherVars>>

SpecDispatch == InitFetch /\ [][NextDispatch]_vars

----------------------------------------------------------------------------
(* The token and delivery routes: src/src/http/mod.rs *)

\* one second passes
Tick ==
  /\ now < MaxNow
  /\ now' = now + 1
  /\ UNCHANGED <<held, verdict, cdnVars, otherVars>>

Miss == [hit |-> FALSE, token |-> <<>>, checksum |-> <<>>, ts |-> 0]

\* serve_token never finds the entry
serve_token_always_miss(id, remote, user_agent, clock) == Miss

\* serve_token at clock value `clock`
serve_token(id, remote, user_agent, clock) ==
  LET cached == get_video_file_path(id)
      c == get_video_file_checksum_by_cached_video(id, cached)
  IN IF cached = "Unavailable" \/ ~c.ok THEN Miss
     ELSE [hit |-> TRUE,
           token |-> issue_token(token_sign_secret, id, c.checksum, remote,
                                 user_agent, clock),
           checksum |-> c.checksum, ts |-> clock]

\* an optional request part: a query parameter, a header, the client address
None == [some |-> FALSE, value |-> <<>>]

Some(value) == [some |-> TRUE, value |-> value]

OriginPlayUrl ==
  <<"h", "t", "t", "p", "s", ":", "/", "/", "a", "p", "i", ".", "u", "d", "o",
    "n", ".", "d", "a", "n", "c", "e", "/", "A", "p", "i", "/", "S", "o", "n",
    "g", "s", "/", "p", "l", "a", "y", "?", "i", "d", "=">>

\* format!("/v/{}-{}.mp4?auth={}&t={t}&auth_key={}", id, checksum, token, token)
DeliveryUrl(id, checksum, token, t) ==
  <<"/", "v", "/">> \o ToDecimal(id) \o <<"-">> \o checksum
    \o <<".", "m", "p", "4", "?", "a", "u", "t", "h", "=">> \o token
    \o <<"&", "t", "=">> \o t \o <<"&", "a", "u", "t", "h", "_", "k", "e", "y", "=">>
    \o token

\* the rejection of a token or delivery handler: handle_rejection answers 400
Rejected(route, why) ==
  [NoResp EXCEPT !.route = route, !.status = 400, !.rejection = why]

\* the common part of the two token handlers: serve_token, then 302 with the
\* Location; the client keeps the first token it is given
Redirect(route, t, id, remote, user_agent) ==
  LET serve == serve_token(id, remote, user_agent, now)
      cached == get_video_file_path(id)
  IN /\ resp' = [NoResp EXCEPT
                   !.route = route, !.status = 302, !.id = id, !.cached = cached,
                   !.token = serve.token, !.url_checksum = serve.checksum,
                   !.entry_checksum =
                     IF cached = "Unavailable" THEN NoChecksum
                     ELSE get_video_file_checksum_by_cached_video(id, cached),
                   !.location =
                     IF serve.hit THEN DeliveryUrl(id, serve.checksum, serve.token, t)
                     ELSE OriginPlayUrl \o ToDecimal(id)]
     /\ held' = IF serve.hit
                THEN [kind |-> "issued", token |-> serve.token,
                      secret |-> token_sign_secret, id |-> id,
                      checksum |-> serve.checksum, user_agent |-> user_agent,
                      remote |-> remote, ts |-> now]
                ELSE held

\* GET /api/{v}/videos/{id_mp4}: the token is issued for the User-Agent ""
AyaVideos(id_mp4, remote) ==
  LET id == parse_u32(trim_end_matches(id_mp4, <<".", "m", "p", "4">>)) IN
  /\ held = NoToken
  /\ id.ok => id.val \in SongIds
  /\ IF remote = NoRemote
     THEN resp' = Rejected("videos", "NoClientIP") /\ held' = held
     ELSE IF ~id.ok
     THEN resp' = Rejected("videos", "BadVideoId") /\ held' = held
     ELSE Redirect("videos", <<"a", "y", "a">>, id.val, remote, <<>>)
  /\ UNCHANGED <<otherVars, now, verdict, video, metadata, overrideFile, tmpPath, inode,
                 sess, faults>>

\* GET /Api/Songs/play?id={id} with the request's User-Agent header
WannaDancePlay(query_id, remote, user_agent) ==
  LET id == parse_u32(query_id.value) IN
  /\ held = NoToken
  /\ (query_id.some /\ id.ok) => id.val \in SongIds
  /\ IF ~query_id.some \/ ~id.ok
     THEN resp' = Rejected("play", "BadVideoId") /\ held' = held
     ELSE IF remote = NoRemote
     THEN resp' = Rejected("play", "NoClientIP") /\ held' = held
     ELSE IF ~user_agent.some
     THEN resp' = Rejected("play", "NoUserAgent") /\ held' = held
     ELSE Redirect("play", <<"w", "d">>, id.val, remote, user_agent.value)
  /\ UNCHANGED <<otherVars, now, verdict, video, metadata, overrideFile, tmpPath, inode,
                 sess, faults>>

NoAuth == [some |-> FALSE, token |-> <<>>]

Auth(token) == [some |-> TRUE, token |-> token]

\* GET /v/{id_checksum_mp4}?auth={auth}
VideoFiles(id_checksum_mp4, auth) ==
  LET id_checksum == Split(trim_end_matches(id_checksum_mp4, <<".", "m", "p", "4">>), "-")
      id == parse_u32(id_checksum[1])
      checksum_requested == id_checksum[2]
      served == serve_file_auth(id.val, auth.token, checksum_requested, now)
      seen == [NoResp EXCEPT !.route = "v", !.path = id_checksum_mp4,
                             !.auth = auth.some, !.token = auth.token,
                             !.in_time = /\ held # NoToken
                                         /\ now - held.ts <= TokenValidSeconds,
                             !.resolved = IF Len(id_checksum) = 2 /\ id.ok
                                          THEN get_video_file_path(id.val)
                                          ELSE "none"]
      rejected(why) == [seen EXCEPT !.status = 400, !.rejection = why]
  IN /\ (Len(id_checksum) = 2 /\ id.ok) => id.val \in SongIds
     /\ resp' =
          IF Len(id_checksum) # 2 THEN rejected("AreYouTryingToHackMe")
          ELSE IF ~id.ok THEN rejected("BadVideoId")
          ELSE IF ~auth.some THEN rejected("BadToken")
          ELSE IF served.result # "Ok" THEN rejected("BadToken")
          ELSE IF served.cached = "Unavailable" THEN rejected("AreYouTryingToHackMe")
          ELSE [seen EXCEPT
                  !.status = 200, !.id = id.val,
                  !.cached = served.cached, !.verified = served.verified,
                  !.url_checksum = checksum_requested,
                  !.entry_checksum =
                    get_video_file_checksum_by_cached_video(id.val, served.cached)]
     /\ UNCHANGED <<otherVars, now, held, verdict, video, metadata, overrideFile, tmpPath,
                    inode, sess, faults>>

\* the paths and tokens a client sends to /v/
DeliveryPaths ==
  {<<"1", "-">> \o c \o <<".", "m", "p", "4">> : c \in Etags \cup {held.checksum}}
  \cup {<<"1", ".", "m", "p", "4">>, <<"x", "-", "a", ".", "m", "p", "4">>}

DeliveryAuth ==
  {NoAuth, Auth(<<"0", "-", "-", "-", "f">>)}
  \cup (IF held = NoToken THEN {} ELSE {Auth(held.token)})

DeliveryRemotes == {[kind |-> "V4", octets |-> <<10, 0, 0, 1>>, text |-> <<>>]}

DeliveryUserAgents == {<<>>, <<97>>}

\* the chunks of the one session that fills the cache here
WholeChunks == {<<1>>, <<1, 2>>}

NextDeliver ==
  \/ Tick
  \/ \E remote \in DeliveryRemotes : AyaVideos(<<"1", ".", "m", "p", "4">>, remote)
  \/ \E remote \in DeliveryRemotes, user_agent \in DeliveryUserAgents :
       WannaDancePlay(Some(<<"1">>), remote, Some(user_agent))
  \/ \E path \in DeliveryPaths, auth \in DeliveryAuth : VideoFiles(path, auth)
  \/ Fetcher(1, TRUE, OnePort, OneBasename, Etags, Sizes, WholeChunks)

SpecDeliver == InitFetch /\ [][NextDeliver]_vars

----------------------------------------------------------------------------
(* The cache index under every request: the files of a song are whatever   *)
(* an operator or an earlier run left on disk                              *)

IndexVideos == {NoFile, File(<<1>>), File(<<1, 2>>)}

IndexMetadata ==
  {NoMetadata, BrokenMetadata, MetadataWithoutChecksum,
   Metadata(MD5Hex(<<1>>)), Metadata(MD5Hex(<<1, 2>>))}

\* the last-modified second of an override file
OverrideMtime == 5

IndexOverrides == {NoOverride, [exists |-> TRUE, mtime |-> OverrideMtime]}

InitIndex ==
  /\ now = 0
  /\ held = NoToken
  /\ verdict = NoVerdict
  /\ video \in [SongIds -> IndexVideos]
  /\ metadata \in [SongIds -> IndexMetadata]
  /\ overrideFile \in [SongIds -> IndexOverrides]
  /\ tmpPath = [p \in TmpPaths |-> 0]
  /\ inode = [s \in Sessions |-> <<>>]
  /\ sess = [s \in Sessions |-> IdleSession]
  /\ faults = 0
  /\ resp = NoResp
  /\ compensator = Unused
  /\ forward = Unused
  /\ ranged = Unused
  /\ timed = Unused

\* an operator deletes the files of a song
OperatorRemoves(id) ==
  /\ video' = [video EXCEPT ![id] = NoFile]
  /\ metadata' = [metadata EXCEPT ![id] = NoMetadata]
  /\ overrideFile' = [overrideFile EXCEPT ![id] = NoOverride]
  /\ UNCHANGED <<now, held, verdict, tmpPath, inode, sess, faults, resp, otherVars>>

\* the request parts a client can send to the token and delivery routes
IndexIdMp4 == {<<"1", ".", "m", "p", "4">>, <<"1">>, <<"x", ".", "m", "p", "4">>}

IndexQueryIds == {None, Some(<<"1">>), Some(<<"x">>)}

IndexRemotes == DeliveryRemotes \cup {NoRemote}

IndexUserAgents == {None, Some(<<97>>)}

\* /v/ paths: those of the delivery model, and one with a signed id and no
\* .mp4 suffix
IndexPaths == DeliveryPaths \cup {<<"+", "1", "-">> \o held.checksum}

NextIndex ==
  \/ Tick
  \/ \E id \in SongIds : OperatorRemoves(id)
  \/ \E id_mp4 \in IndexIdMp4, remote \in IndexRemotes : AyaVideos(id_mp4, remote)
  \/ \E query_id \in IndexQueryIds, remote \in IndexRemotes,
        user_agent \in IndexUserAgents :
       WannaDancePlay(query_id, remote, user_agent)
  \/ \E path \in IndexPaths, auth \in DeliveryAuth : VideoFiles(path, auth)

SpecIndex == InitIndex /\ [][NextIndex]_vars

\* the decision gate of the /files/ route over the same files
NextStatus ==
  \/ \E id \in SongIds : OperatorRemoves(id)
  \/ \E s \in Sessions, port \in OnePort, file \in OneBasename \cup BadBasenames,
        e \in Etags, size \in Sizes :
       FilesRequest(s, port, file, e, size) /\ UNCHANGED <<now, held, verdict, faults, otherVars>>

SpecStatus == InitIndex /\ [][NextStatus]_vars

----------------------------------------------------------------------------
(* The token codec on its own: tokens are issued and verified at a clock *)

TokenIds == {1, 12}

TokenChecksums == {<<"a">>, <<"2">>, <<>>}

\* User-Agent byte strings: "", "a", "ab~", "abc"
UserAgents == {<<>>, <<97>>, <<97, 98, 126>>, <<97, 98, 99>>}

Remotes == {[kind |-> "V4", octets |-> <<10, 0, 0, 1>>, text |-> <<>>],
            [kind |-> "V6", octets |-> <<>>, text |-> <<":", ":", "1">>]}

Secrets == {<<"k">>, <<"s">>}

\* sign_ts fields a client can put into a token it assembles itself
ForgedSignTs == {<<"0">>, <<"1">>, <<"9">>, <<"+", "1">>, <<"x">>, <<>>}

ForgedRands == {<<>>, <<"r">>}

\* the cache is empty and no Fetcher session runs
IdleCdn ==
  /\ video = [id \in SongIds |-> NoFile]
  /\ metadata = [id \in SongIds |-> NoMetadata]
  /\ overrideFile = [id \in SongIds |-> NoOverride]
  /\ tmpPath = [p \in TmpPaths |-> 0]
  /\ inode = [s \in Sessions |-> <<>>]
  /\ sess = [s \in Sessions |-> IdleSession]
  /\ faults = 0
  /\ resp = NoResp
  /\ compensator = Unused
  /\ forward = Unused
  /\ ranged = Unused
  /\ timed = Unused

InitToken ==
  /\ now = 0
  /\ held = NoToken
  /\ verdict = NoVerdict
  /\ IdleCdn

\* serve_token on an entry whose checksum is `checksum`; the client keeps
\* the token
ServeToken(secret, id, checksum, remote, user_agent) ==
  /\ held = NoToken
  /\ held' = [kind |-> "issued",
              token |-> issue_token(secret, id, checksum, remote, user_agent, now),
              secret |-> secret, id |-> id, checksum |-> checksum,
              user_agent |-> user_agent, remote |-> remote, ts |-> now]
  /\ verdict' = NoVerdict
  /\ UNCHANGED <<now, cdnVars, otherVars>>

\* the client puts a token together from chosen fields; the sign field is the
\* signature of those fields for some checksum, or an arbitrary string
ForgeToken(secret, id, sign_ts, rand, signed_checksum, fields) ==
  LET uid == <<"u">>
      sign == IF signed_checksum = <<"?">> THEN <<"f">>
              ELSE generate_sign(secret, id, signed_checksum, sign_ts, rand, uid)
      token == IF fields = 3 THEN sign_ts \o <<"-">> \o rand \o <<"-">> \o sign
               ELSE IF fields = 4 THEN encode_token(sign, sign_ts, rand, uid)
               ELSE encode_token(sign, sign_ts, rand, uid) \o <<"-">> \o <<"z">>
  IN /\ held = NoToken
     /\ held' = [kind |-> "forged", token |-> token, secret |-> secret, id |-> id,
                 checksum |-> signed_checksum, user_agent |-> <<>>,
                 remote |-> NoRemote, ts |-> -1]
     /\ verdict' = NoVerdict
     /\ UNCHANGED <<now, cdnVars, otherVars>>

\* verify_token on the token the client holds, against any id, checksum and
\* secret
VerifyToken(secret, id, checksum) ==
  /\ held # NoToken
  /\ verdict' = [token |-> held.token, secret |-> secret,
                 id |-> id, checksum |-> checksum, clock |-> now,
                 result |-> verify_token(held.token, secret, id, checksum,
                                         TokenValidSeconds, now)]
  /\ UNCHANGED <<now, held, cdnVars, otherVars>>

NextToken ==
  \/ Tick
  \/ \E secret \in Secrets, id \in TokenIds, checksum \in TokenChecksums,
        remote \in Remotes, user_agent \in UserAgents :
        ServeToken(secret, id, checksum, remote, user_agent)
  \/ \E secret \in Secrets, id \in TokenIds, sign_ts \in ForgedSignTs,
        rand \in ForgedRands, signed_checksum \in TokenChecksums \cup {<<"?">>},
        fields \in 3..5 :
        ForgeToken(secret, id, sign_ts, rand, signed_checksum, fields)
  \/ \E secret \in Secrets, id \in TokenIds, checksum \in TokenChecksums :
        VerifyToken(secret, id, checksum)

SpecToken == InitToken /\ [][NextToken]_vars

----------------------------------------------------------------------------
(* Properties of the token codec *)

\* the verdict is about the issued token, checked with the secret it was
\* signed with
VerdictOnIssued ==
  /\ held.kind = "issued"
  /\ verdict # NoVerdict
  /\ verdict.secret = held.secret

\* C1: the token serve_token builds at ts0 is accepted for the same id,
\* checksum and secret at every clock value ts with ts - ts0 <=
\* token_valid_seconds and rejected at every later one, whatever the
\* User-Agent and client IP
TokenRoundTrip ==
  (VerdictOnIssued /\ verdict.id = held.id /\ verdict.checksum = held.checksum)
    => (verdict.result = "Ok" <=> verdict.clock - held.ts <= TokenValidSeconds)

\* C2: a token issued for (id, c1) is rejected when it is checked against
\* another checksum or another id with the same secret, also inside the
\* validity window, and its sign field is the digest of exactly
\* "/v/{id}-{checksum}.mp4-{sign_ts}-{rand}-{uid}-{secret}"
TokenBinding ==
  /\ (VerdictOnIssued /\ (verdict.id # held.id \/ verdict.checksum # held.checksum))
       => verdict.result # "Ok"
  /\ held.kind = "issued" =>
       <<held.token[Len(held.token)]>> =
         MD5Hex(<<"/", "v", "/">> \o ToDecimal(held.id) \o <<"-">> \o held.checksum
                \o <<".", "m", "p", "4", "-">> \o ToDecimal(held.ts) \o <<"-">>
                \o base64_url_encode(held.user_agent) \o <<"-">>
                \o replace(IpToString(held.remote), ".", "_") \o <<"-">>
                \o held.secret)

\* a token for checksum c1 was checked against c2 # c1 inside the validity
\* window and was rejected for its signature
TokenBindingWitness ==
  /\ VerdictOnIssued
  /\ verdict.id = held.id
  /\ verdict.checksum # held.checksum
  /\ verdict.clock - held.ts <= TokenValidSeconds
  /\ verdict.result = "mismatch"

\* the fields verify_token reads from a token: the first four parts
TokenParts(v) == Split(v.token, "-")

SignRecomputes(v) ==
  /\ Len(TokenParts(v)) >= 4
  /\ TokenParts(v)[4] = generate_sign(v.secret, v.id, v.checksum, TokenParts(v)[1],
                                      TokenParts(v)[2], TokenParts(v)[3])

WithinValidity(v) ==
  /\ Len(TokenParts(v)) >= 1
  /\ from_str_radix(TokenParts(v)[1]).ok
  /\ v.clock - from_str_radix(TokenParts(v)[1]).val <= TokenValidSeconds

\* C5: verify_token returns Ok exactly when (a) the sign field equals the
\* signature recomputed from the secret, id, checksum and the token's own
\* sign_ts, rand and uid and (b) now - sign_ts <= token_valid_seconds, where a
\* token with fewer than four fields has no sign field and a sign_ts that is
\* no decimal number has no value; a sign_ts in the future verifies
VerifyTokenIff ==
  verdict # NoVerdict =>
    (verdict.result = "Ok" <=> (SignRecomputes(verdict) /\ WithinValidity(verdict)))

\* a correctly signed token whose sign_ts lies in the future was accepted
VerifyTokenFutureWitness ==
  /\ verdict # NoVerdict
  /\ SignRecomputes(verdict)
  /\ from_str_radix(TokenParts(verdict)[1]).ok
  /\ from_str_radix(TokenParts(verdict)[1]).val > verdict.clock
  /\ verdict.result = "Ok"

\* a correctly signed token was rejected because it had expired
VerifyTokenExpiredSeen ==
  /\ verdict # NoVerdict
  /\ SignRecomputes(verdict)
  /\ verdict.result = "expired"

----------------------------------------------------------------------------
(* Delivery: SpecDeliver *)

\* the last response carried the bytes of a cached file
ServedFromCache == resp.status = 200 /\ resp.cached # "Unavailable"

\* the token of the last response is signed for the id and the checksum of
\* the request path
RespSignRecomputes ==
  SignRecomputes([token |-> resp.token, secret |-> token_sign_secret,
                  id |-> resp.id, checksum |-> resp.url_checksum])

\* C3: every response on the /v/ delivery route whose body is read from a
\* cached file is preceded, in the same request, by a successful verify_token
\* for that song id and the checksum of the request path
DeliveryRouteGated ==
  (resp.route = "v" /\ ServedFromCache) => (resp.verified /\ RespSignRecomputes)

\* a /v/ request with a verified token was served the cached file
DeliveryRouteGatedWitness ==
  /\ resp.route = "v"
  /\ ServedFromCache
  /\ resp.verified
  /\ held # NoToken
  /\ resp.token = held.token

\* C3 as stated: the same on every route, /files/ with a satisfied
\* local_cache_status included
CachedDeliveryGated == ServedFromCache => resp.verified

\* C4 as stated: a /v/ response that serves the file to the holder of an
\* issued token serves the version the token was issued for
TokenVersionBound ==
  (resp.route = "v" /\ ServedFromCache /\ held.kind = "issued"
     /\ resp.token = held.token)
    => (resp.entry_checksum.ok /\ resp.entry_checksum.checksum = held.checksum)

----------------------------------------------------------------------------
(* The Fetcher: SpecDeliver (one session, no fault), SpecFetch *)

\* MD5(video.mp4) is the checksum of metadata.json
Consistent(id) ==
  /\ video[id].exists
  /\ metadata[id].exists /\ metadata[id].parses /\ metadata[id].has_checksum
  /\ MD5Hex(video[id].data) = metadata[id].checksum

Others(s) == Sessions \ {s}

Alone(s) == \A t \in Others(s) : sess[t].pc = "idle"

\* C6 as stated: once a session has published, video.mp4 has expected_size
\* bytes and metadata.json holds the expected etag
FetcherPublication ==
  \A s \in Sessions :
    (Alone(s) /\ sess[s].last = "Published")
      => /\ video[sess[s].id].exists
         /\ Len(video[sess[s].id].data) = sess[s].expected_size
         /\ metadata[sess[s].id] = Metadata(sess[s].etag)

\* the session failed: it never published, and its last publish attempt or
\* its stream ended in an error
Failed(s) ==
  /\ sess[s].pc \in {"streaming", "done"}
  /\ ~sess[s].published
  /\ \/ sess[s].last \in {"ChecksumMismatch", "IoError"}
     \/ sess[s].end = "UpstreamError"

\* C7 as stated: a failed session leaves video.mp4 and metadata.json as they
\* were when it started
FailedFetchLeavesCache ==
  \A s \in Sessions :
    (Alone(s) /\ Failed(s))
      => /\ video[sess[s].id] = sess[s].pre_video
         /\ metadata[sess[s].id] = sess[s].pre_metadata

\* C8 as stated: whenever resolve returns the canonical entry, the video.mp4
\* and the metadata.json a reader sees belong together
AtomicPromotion ==
  \A id \in SongIds :
    (get_video_file_path(id) = "Video"
       /\ get_video_file_checksum_by_cached_video(id, "Video").ok)
      => Consistent(id)

\* two fault-free sessions with different source ports have both published
\* and both ended
BothPublished ==
  /\ faults = 0
  /\ \A s \in Sessions : sess[s].pc = "done" /\ sess[s].published
  /\ \A s \in Sessions : \A t \in Others(s) :
       sess[s].id = sess[t].id /\ sess[s].port # sess[t].port

\* C9 as stated: after two sessions for the same song have published, the
\* cache is consistent
ConcurrentPublishSafe ==
  BothPublished => \A s \in Sessions : Consistent(sess[s].id)

----------------------------------------------------------------------------
(* Temp paths: SpecDispatch *)

InFlight(s) == sess[s].pc \in {"dispatched", "streaming"}

SameSongAndFile(s, t) ==
  /\ InFlight(s) /\ InFlight(t)
  /\ sess[s].id = sess[t].id
  /\ sess[s].file = sess[t].file

\* C10: two sessions in flight for the same song id and file basename whose
\* clients have different source ports have different download_tmp paths,
\* each being {cache_path}/{port}_{basename}
DownloaderIsolation ==
  \A s \in Sessions : \A t \in Others(s) :
    (SameSongAndFile(s, t) /\ sess[s].port # sess[t].port)
      => /\ sess[s].download_tmp # sess[t].download_tmp
         /\ sess[s].download_tmp =
              cache_path \o <<"/">> \o ToDecimal(sess[s].port) \o <<"_">> \o sess[s].file

\* two sessions for the same file from different ports have both opened
\* their temp files
DownloaderIsolationWitness ==
  \E s \in Sessions : \E t \in Others(s) :
    /\ SameSongAndFile(s, t)
    /\ sess[s].port # sess[t].port
    /\ sess[s].pc = "streaming" /\ sess[t].pc = "streaming"

----------------------------------------------------------------------------
(* The tee: SpecTee *)

IsPrefix(p, q) == Len(p) <= Len(q) /\ SubSeq(q, 1, Len(p)) = p

Teeing(s) == sess[s].pc \notin {"idle", "dispatched", "done"}

UpstreamErrorDiscards ==
  \A s \in Sessions :
    (Alone(s) /\ sess[s].end = "UpstreamError")
      => /\ sess[s].pc = "done"
         /\ tmpPath[sess[s].download_tmp] = 0

----------------------------------------------------------------------------
(* The token and delivery routes: SpecIndex *)

TokenRoutes == {"videos", "play"}

\* the entry resolved and its checksum could be read when the last response
\* was made
RespResolved == resp.cached # "Unavailable" /\ resp.entry_checksum.ok

\* /v/{id}-{checksum}.mp4?auth={token}&t={t}&auth_key={token} for the last
\* response, checksum being the entry's checksum at that moment
RespDeliveryLocation(t) ==
  <<"/", "v", "/">> \o ToDecimal(resp.id) \o <<"-">> \o resp.entry_checksum.checksum
    \o <<".", "m", "p", "4", "?", "a", "u", "t", "h", "=">> \o resp.token
    \o <<"&", "t", "=">> \o t \o <<"&", "a", "u", "t", "h", "_", "k", "e", "y", "=">>
    \o resp.token

RespOriginLocation ==
  <<"h", "t", "t", "p", "s", ":", "/", "/", "a", "p", "i", ".", "u", "d", "o",
    "n", ".", "d", "a", "n", "c", "e", "/", "A", "p", "i", "/", "S", "o", "n",
    "g", "s", "/", "p", "l", "a", "y", "?", "i", "d", "=">> \o ToDecimal(resp.id)

RespPathParts == Split(trim_end_matches(resp.path, <<".", "m", "p", "4">>), "-")

\* the last /v/ request named the song and the checksum of the issued token
\* the client holds, presented that token inside its validity, and the song
\* resolved
RespRequestValid ==
  /\ Len(RespPathParts) = 2
  /\ parse_u32(RespPathParts[1]).ok
  /\ resp.auth
  /\ held.kind = "issued"
  /\ resp.token = held.token
  /\ parse_u32(RespPathParts[1]).val = held.id
  /\ RespPathParts[2] = held.checksum
  /\ resp.in_time
  /\ resp.resolved \in {"Video", "VideoOverride"}

Resolved == {s \in Sessions : sess[s].cached # "none"}

\* C15: the override is returned whenever {override}/{id}.mp4 exists, with or
\* without a canonical pair; the canonical pair exactly when there is no
\* override and video.mp4 and metadata.json both exist; otherwise Unavailable
\* with the canonical paths
ResolvePriority ==
  \A s \in Resolved :
    LET r == sess[s]
        pair == r.pre_video.exists /\ r.pre_metadata.exists
    IN /\ r.pre_override.exists =>
            /\ r.cached = "VideoOverride"
            /\ r.cache_file = override_mp4(r.id)
       /\ r.cached = "Video" <=> (~r.pre_override.exists /\ pair)
       /\ r.cached = "Unavailable" <=> (~r.pre_override.exists /\ ~pair)
       /\ r.cached \in {"Video", "Unavailable"} =>
            /\ r.cache_file = video_mp4(r.id)
            /\ r.metadata_json = metadata_json(r.id)

\* an override and a canonical pair both existed and the override was returned
ResolvePriorityWitness ==
  \E s \in Resolved :
    /\ sess[s].pre_override.exists
    /\ sess[s].pre_video.exists /\ sess[s].pre_metadata.exists
    /\ sess[s].cached = "VideoOverride"

\* the canonical pair of the request of session s had the expected size and
\* the expected checksum
CanonicalMatches(s) ==
  /\ sess[s].pre_video.exists
  /\ sess[s].pre_metadata.exists
  /\ Len(sess[s].pre_video.data) = sess[s].expected_size
  /\ sess[s].pre_metadata.parses
  /\ sess[s].pre_metadata.has_checksum
  /\ sess[s].pre_metadata.checksum = sess[s].etag

\* C16: the local cache satisfies a request iff the entry is an override, or
\* it is the canonical pair with the expected size and the expected checksum
\* in metadata.json; metadata that does not parse or has no checksum gives
\* false
LocalCacheStatus ==
  \A s \in Resolved :
    /\ sess[s].end = "hit" <=>
         (sess[s].pre_override.exists
            \/ (~sess[s].pre_override.exists /\ CanonicalMatches(s)))
    /\ sess[s].end # "hit" => sess[s].pc = "dispatched"

\* a canonical pair of the expected size whose metadata.json does not parse or
\* has no checksum was not served from the cache
LocalCacheStatusWitness ==
  \E s \in Resolved :
    /\ sess[s].cached = "Video"
    /\ Len(sess[s].pre_video.data) = sess[s].expected_size
    /\ ~(sess[s].pre_metadata.parses /\ sess[s].pre_metadata.has_checksum)
    /\ sess[s].pc = "dispatched"

\* ---------------------------------------------------------------------
\* cdn/range.rs: the range server
\* ---------------------------------------------------------------------

\* u64 is scaled to 4 bits: its values are 0..U64Modulus - 1
U64Modulus == 16

\* the 16384-byte buffer of the body stream, scaled
bufsize == 2

\* the longest file served
MaxFile == 3

\* integer overflow panics with overflow checks and wraps without
Builds == {"checked", "wrapping"}

Overflowed == [ok |-> FALSE, val |-> 0]

\* the result of a u64 operation whose mathematical value is n
u64(build, n) ==
  IF n \in 0..(U64Modulus - 1) THEN [ok |-> TRUE, val |-> n]
  ELSE IF build = "checked" THEN Overflowed
  ELSE [ok |-> TRUE, val |-> n % U64Modulus]

\* str::parse::<u64>(): an optional '+', then digits of a value that fits
parse_u64(s) ==
  LET body == IF s # <<>> /\ s[1] = "+" THEN Tail(s) ELSE s
  IN IF AllDigits(body) /\ DigitsValue(body) < U64Modulus
     THEN [ok |-> TRUE, val |-> DigitsValue(body)]
     ELSE NoParse

\* str::replace(pat, ""): every occurrence of pat is removed, left to right
RECURSIVE remove_all(_, _)
remove_all(s, pat) ==
  IF Len(s) < Len(pat) THEN s
  ELSE IF SubSeq(s, 1, Len(pat)) = pat
    THEN remove_all(SubSeq(s, Len(pat) + 1, Len(s)), pat)
    ELSE <<s[1]>> \o remove_all(Tail(s), pat)

BytesUnit == <<"b", "y", "t", "e", "s", "=">>

RangeOk(start, end) == [kind |-> "Ok", start |-> start, end |-> end]
RangeErr == [kind |-> "Err", start |-> 0, end |-> 0]
RangePanic == [kind |-> "panic", start |-> 0, end |-> 0]

\* get_range_params: "bytes=" is removed, the rest is split at '-', empty
\* parts are dropped; the first part is the start (default 0), the second
\* the end (default size - 1)
get_range_params(range, size, build) ==
  LET last == u64(build, size - 1)
      parts == IF range.some
               THEN SelectSeq(Split(remove_all(range.value, BytesUnit), "-"),
                              LAMBDA n : Len(n) > 0)
               ELSE <<>>
      start == IF Len(parts) > 0 THEN parse_u64(parts[1]) ELSE [ok |-> TRUE, val |-> 0]
  IN IF ~start.ok THEN RangeErr
     ELSE IF Len(parts) > 1
       THEN IF parse_u64(parts[2]).ok
            THEN RangeOk(start.val, parse_u64(parts[2]).val)
            ELSE RangeErr
       ELSE IF last.ok THEN RangeOk(start.val, last.val) ELSE RangePanic

\* a get_range call on a file before the request arrives
IdleRange(build, file) ==
  [pc |-> "idle", build |-> build, file |-> file, range |-> None, status |-> 0,
   content_range |-> <<>>, content_length |-> 0, byte_count |-> 0,
   cycles |-> 0, cycle |-> 0, sent_bytes |-> 0, pos |-> 0, body |-> <<>>]

\* the files served: 0 to MaxFile bytes
RangeFiles == {[i \in 1..n |-> i] : n \in 0..MaxFile}

\* the endpoints a Range header names: omitted, or a number
RangeEnds == {<<>>} \cup {ToDecimal(n) : n \in 0..MaxFile}

\* the Range headers of the requests: none, bytes=a-b with either endpoint
\* omitted, and headers of other forms
RangeHeaders ==
  {None}
  \cup {Some(BytesUnit \o a \o <<"-">> \o b) : a \in RangeEnds, b \in RangeEnds}
  \cup {Some(<<"0", "-", "0">>), Some(BytesUnit \o <<"0", "-", "0", "-", "1">>),
        Some(BytesUnit \o <<"x", "-", "1">>), Some(BytesUnit \o <<"0", "-", "x">>),
        Some(<<"x">>)}

InitRange ==
  /\ now = 0
  /\ held = NoToken
  /\ verdict = NoVerdict
  /\ video = [id \in SongIds |-> NoFile]
  /\ metadata = [id \in SongIds |-> NoMetadata]
  /\ overrideFile = [id \in SongIds |-> NoOverride]
  /\ tmpPath = [p \in TmpPaths |-> 0]
  /\ inode = [s \in Sessions |-> <<>>]
  /\ sess = [s \in Sessions |-> IdleSession]
  /\ faults = 0
  /\ resp = NoResp
  /\ compensator = Unused
  /\ forward = Unused
  /\ ranged \in {IdleRange(build, file) : build \in Builds, file \in RangeFiles}
  /\ timed = Unused

\* get_range and internal_get_range up to the response: the parameters, the
\* byte count, the seek, the headers and the status; an Err is answered by
\* handle_rejection with 400
GetRange(range_header) ==
  LET size == Len(ranged.file)
      p == get_range_params(range_header, size, ranged.build)
      diff == u64(ranged.build, p.end - p.start)
      byte_count == u64(ranged.build, diff.val + 1)
      seen == [ranged EXCEPT !.range = range_header]
  IN /\ ranged.pc = "idle"
     /\ ranged' =
          IF p.kind = "Err" THEN [seen EXCEPT !.pc = "rejected", !.status = 400]
          ELSE IF p.kind = "panic" \/ ~diff.ok \/ ~byte_count.ok
            THEN [seen EXCEPT !.pc = "panicked"]
          ELSE [seen EXCEPT
                  !.pc = "streaming",
                  !.status = IF range_header.some THEN 206 ELSE 200,
                  !.content_range = <<p.start, p.end, size>>,
                  !.content_length = byte_count.val,
                  !.byte_count = byte_count.val,
                  !.cycles = (byte_count.val \div bufsize) + 1,
                  !.pos = p.start]
     /\ UNCHANGED <<now, held, verdict, cdnVars, timed, compensator, forward>>

\* the body stream: one cycle fills a buffer of min(byte_count - sent_bytes,
\* bufsize) bytes with read_exact and yields it; read_exact at the end of the
\* file is an Err that unwrap turns into a panic
StreamCycle ==
  LET n == IF ranged.byte_count - ranged.sent_bytes < bufsize
           THEN ranged.byte_count - ranged.sent_bytes ELSE bufsize
  IN /\ ranged.pc = "streaming"
     /\ ranged.cycle < ranged.cycles
     /\ ranged' =
          IF ranged.pos + n > Len(ranged.file)
          THEN [ranged EXCEPT !.pc = "aborted"]
          ELSE [ranged EXCEPT
                  !.body = Append(@, SubSeq(ranged.file, ranged.pos + 1, ranged.pos + n)),
                  !.sent_bytes = @ + n,
                  !.pos = @ + n,
                  !.cycle = @ + 1]
     /\ UNCHANGED <<now, held, verdict, cdnVars, timed, compensator, forward>>

\* the body stream after its last cycle
StreamEnd ==
  /\ ranged.pc = "streaming"
  /\ ranged.cycle = ranged.cycles
  /\ ranged' = [ranged EXCEPT !.pc = "done"]
  /\ UNCHANGED <<now, held, verdict, cdnVars, timed, compensator, forward>>

NextRange ==
  \/ \E range_header \in RangeHeaders : GetRange(range_header)
  \/ StreamCycle
  \/ StreamEnd

SpecRange == InitRange /\ [][NextRange]_vars

\* the chunks of a body, one after the other
RECURSIVE Concat(_)
Concat(chunks) == IF chunks = <<>> THEN <<>> ELSE Head(chunks) \o Concat(Tail(chunks))

\* the response carries the bytes first..last of the file with the given
\* status: headers, chunk sizes and the body so far, complete at the end
Carries(status, first, last) ==
  /\ ranged.pc \in {"streaming", "done"}
  /\ ranged.status = status
  /\ ranged.content_length = last - first + 1
  /\ \A i \in 1..Len(ranged.body) : Len(ranged.body[i]) <= bufsize
  /\ IsPrefix(Concat(ranged.body), SubSeq(ranged.file, first + 1, last + 1))
  /\ ranged.pc = "done" => Concat(ranged.body) = SubSeq(ranged.file, first + 1, last + 1)

\* the request asked for bytes=a-b with a <= b inside the file
ValidRange(a, b) ==
  /\ ranged.range = Some(BytesUnit \o ToDecimal(a) \o <<"-">> \o ToDecimal(b))
  /\ a <= b
  /\ b < Len(ranged.file)

\* C17: a valid range a-b of a file of N bytes is answered 206 with
\* Content-Range bytes a-b/N, Content-Length b-a+1 and file[a..=b] in chunks
\* of at most bufsize bytes; a request without Range is answered 200 with
\* the whole file and Content-Length N
RangeCorrectness ==
  ranged.pc \notin {"unused", "idle"} =>
    /\ \A a, b \in 0..MaxFile :
         ValidRange(a, b) =>
           /\ Carries(206, a, b)
           /\ ranged.content_range = <<a, b, Len(ranged.file)>>
    /\ ranged.range = None => Carries(200, 0, Len(ranged.file) - 1)

\* the same for files of at least one byte
RangeCorrectnessNonEmpty ==
  (ranged.pc # "unused" /\ Len(ranged.file) >= 1) => RangeCorrectness

\* a multi-chunk range was streamed to its end
RangeCorrectnessNonEmptyWitness ==
  /\ ranged.pc = "done"
  /\ ranged.range.some
  /\ \E a, b \in 0..MaxFile : ValidRange(a, b) /\ b - a + 1 > bufsize

\* the header is bytes=start-end with numeric, optionally omitted endpoints
WellFormedRange(h) ==
  /\ Len(h) >= Len(BytesUnit)
  /\ SubSeq(h, 1, Len(BytesUnit)) = BytesUnit
  /\ LET ends == Split(SubSeq(h, Len(BytesUnit) + 1, Len(h)), "-")
     IN /\ Len(ends) = 2
        /\ \A i \in 1..2 : ends[i] = <<>> \/ AllDigits(ends[i])

\* C18: a Range header that is not of the form bytes=start-end is answered
\* 400 and no byte of the file is sent
MalformedRangeRejected ==
  (/\ ranged.pc \notin {"unused", "idle"}
   /\ ranged.range.some
   /\ ~WellFormedRange(ranged.range.value)) =>
    /\ ranged.pc = "rejected"
    /\ ranged.status = 400
    /\ ranged.body = <<>>

\* ---------------------------------------------------------------------
\* types/timedmap: the TimedMap
\* ---------------------------------------------------------------------

Keys == {"k"}

Values == {1, 2}

Lifetimes == {1, 2}

Threads == {1, 2}

\* no entry under a key
NoValue == [some |-> FALSE, value |-> 0, expire |-> 0]

\* Value::new(value, lifetime): the entry expires lifetime after the clock
Value(value, lifetime, clock) ==
  [some |-> TRUE, value |-> value, expire |-> clock + lifetime]

\* Value::is_expired_at(time): expires_at <= time
is_expired_at(v, time) == v.expire <= time

\* Value::set_expiry(new_lifetime): the lifetime starts again at the clock
set_expiry(v, new_lifetime, clock) == [v EXCEPT !.expire = clock + new_lifetime]

\* Value::add_expiry(added_lifetime)
add_expiry(v, added_lifetime) == [v EXCEPT !.expire = @ + added_lifetime]

\* Value::value_checked(): the value unless the entry is expired
value_checked(v, clock) ==
  IF v.some /\ ~is_expired_at(v, clock) THEN Some(v.value) ELSE None

\* a task that has not called the map yet
IdleThread ==
  [pc |-> "idle", op |-> "none", key |-> "", lifetime |-> 0, v |-> NoValue,
   result |-> None, checked_at |-> 0, stored_after |-> FALSE,
   overlapped |-> FALSE, stale |-> FALSE, live |-> 0]

\* the entries a map holds after insert calls at instant 0
TimedEntries == {NoValue} \cup {Value(1, lifetime, 0) : lifetime \in Lifetimes}

InitTimed ==
  /\ now = 0
  /\ held = NoToken
  /\ verdict = NoVerdict
  /\ video = [id \in SongIds |-> NoFile]
  /\ metadata = [id \in SongIds |-> NoMetadata]
  /\ overrideFile = [id \in SongIds |-> NoOverride]
  /\ tmpPath = [p \in TmpPaths |-> 0]
  /\ inode = [s \in Sessions |-> <<>>]
  /\ sess = [s \in Sessions |-> IdleSession]
  /\ faults = 0
  /\ resp = NoResp
  /\ compensator = Unused
  /\ forward = Unused
  /\ ranged = Unused
  /\ timed \in {[inner |-> [k \in Keys |-> e], th |-> [t \in Threads |-> IdleThread]] :
                  e \in TimedEntries}

\* the tasks other than t that hold a copy of the entry of key learn that
\* the entry was written or removed after they read it
Overlap(t, key) ==
  [u \in Threads |->
     IF u # t /\ timed.th[u].key = key /\ timed.th[u].pc \in {"read", "expired", "fresh"}
     THEN [timed.th[u] EXCEPT !.overlapped = TRUE]
     ELSE timed.th[u]]

\* insert: under the write lock the entry is overwritten
Insert(t, key, value, lifetime) ==
  /\ timed.th[t].pc = "idle"
  /\ timed' = [timed EXCEPT
                 !.inner = [timed.inner EXCEPT ![key] = Value(value, lifetime, now)],
                 !.th = [Overlap(t, key) EXCEPT ![t] =
                           [@ EXCEPT !.pc = "done", !.op = "insert", !.key = key,
                                     !.lifetime = lifetime]]]
  /\ UNCHANGED <<now, held, verdict, cdnVars, ranged, compensator, forward>>

\* remove: under the write lock the entry is taken out; its value is
\* returned unless it is expired
Remove(t, key) ==
  /\ timed.th[t].pc = "idle"
  /\ timed' = [timed EXCEPT
                 !.inner = [timed.inner EXCEPT ![key] = NoValue],
                 !.th = [Overlap(t, key) EXCEPT ![t] =
                           [@ EXCEPT !.pc = "done", !.op = "remove", !.key = key,
                                     !.result = value_checked(timed.inner[key], now)]]]
  /\ UNCHANGED <<now, held, verdict, cdnVars, ranged, compensator, forward>>

\* get_value_unchecked, called by get, refresh and extend through get_value:
\* under the read lock the entry is cloned; an absent key ends the call
GetValueUnchecked(t, op, key, lifetime) ==
  LET v == timed.inner[key]
  IN /\ timed.th[t].pc = "idle"
     /\ timed' = [timed EXCEPT !.th[t] =
                    [@ EXCEPT !.pc = IF v.some THEN "read" ELSE "done",
                              !.op = op, !.key = key, !.lifetime = lifetime,
                              !.v = v, !.checked_at = now]]
     /\ UNCHANGED <<now, held, verdict, cdnVars, ranged, compensator, forward>>

\* get_value: the clone is tested with is_expired(), no lock held; get
\* returns the value of a live clone
IsExpired(t) ==
  LET r == timed.th[t]
  IN /\ r.pc = "read"
     /\ timed' = [timed EXCEPT !.th[t] =
                    IF is_expired_at(r.v, now)
                    THEN [r EXCEPT !.pc = "expired", !.checked_at = now]
                    ELSE IF r.op = "get"
                      THEN [r EXCEPT !.pc = "done", !.checked_at = now,
                                     !.result = Some(r.v.value)]
                      ELSE [r EXCEPT !.pc = "fresh", !.checked_at = now]]
     /\ UNCHANGED <<now, held, verdict, cdnVars, ranged, compensator, forward>>

\* the expired entry stays in the map
GetValueKeep(t) ==
  LET r == timed.th[t]
  IN /\ r.pc = "expired"
     /\ timed' = [timed EXCEPT !.th[t] =
                    [r EXCEPT !.pc = "done",
                              !.stored_after = timed.inner[r.key].some]]
     /\ UNCHANGED <<now, held, verdict, cdnVars, ranged, compensator, forward>>

\* get_value on an expired clone: self.remove(key) under the write lock,
\* then None
GetValueRemove(t) ==
  LET r == timed.th[t]
      inner == [timed.inner EXCEPT ![r.key] = NoValue]
  IN /\ r.pc = "expired"
     /\ timed' = [timed EXCEPT
                    !.inner = inner,
                    !.th = [Overlap(t, r.key) EXCEPT ![t] =
                              [r EXCEPT !.pc = "done",
                                        !.stored_after = inner[r.key].some]]]
     /\ UNCHANGED <<now, held, verdict, cdnVars, ranged, compensator, forward>>

\* refresh and extend after get_value returned the clone: under the write
\* lock the expiry of the clone is set and the clone is inserted
WriteBack(t) ==
  LET r == timed.th[t]
      v == IF r.op = "refresh" THEN set_expiry(r.v, r.lifetime, now)
           ELSE add_expiry(r.v, r.lifetime)
      current == timed.inner[r.key]
  IN /\ r.pc = "fresh"
     /\ timed' = [timed EXCEPT
                  !.inner = [timed.inner EXCEPT ![r.key] = v],
                  !.th = [Overlap(t, r.key) EXCEPT ![t] =
                            [r EXCEPT !.pc = "done", !.result = Some(TRUE),
                                      !.stale = /\ r.overlapped
                                                /\ \/ ~current.some
                                                   \/ current.value # r.v.value]]]
     /\ UNCHANGED <<now, held, verdict, cdnVars, ranged, compensator, forward>>

NextTimed ==
  \/ Tick
  \/ \E t \in Threads, key \in Keys, value \in Values, lifetime \in Lifetimes :
       Insert(t, key, value, lifetime)
  \/ \E t \in Threads, key \in Keys : Remove(t, key)
  \/ \E t \in Threads, key \in Keys : GetValueUnchecked(t, "get", key, 0)
  \/ \E t \in Threads, op \in {"refresh", "extend"}, key \in Keys,
        lifetime \in Lifetimes :
       GetValueUnchecked(t, op, key, lifetime)
  \/ \E t \in Threads : IsExpired(t)
  \/ \E t \in Threads : GetValueRemove(t)
  \/ \E t \in Threads : WriteBack(t)

SpecTimed == InitTimed /\ [][NextTimed]_vars

\* the get calls that have returned
Gets == {t \in Threads : timed.th[t].op = "get" /\ timed.th[t].pc = "done"}

\* C19: get returns None for a key that is absent or whose entry has
\* expires_at <= now, with no sweep, and when it returns the expired entry
\* is not in the map any more
EvictionOnRead ==
  timed # Unused =>
    \A t \in Gets :
      LET r == timed.th[t]
      IN /\ (~r.v.some \/ r.v.expire <= r.checked_at) => r.result = None
         /\ (r.v.some /\ r.v.expire <= r.checked_at) => ~r.stored_after
         /\ r.result # None => r.result = Some(r.v.value)

\* a get met an expired entry on its read
EvictionOnReadWitness ==
  /\ timed # Unused
  /\ \E t \in Gets :
       /\ timed.th[t].v.some
       /\ timed.th[t].v.expire <= timed.th[t].checked_at
       /\ timed.th[t].result = None
       /\ ~timed.th[t].stored_after

\* C20: a refresh or extend that overlaps an insert or a remove of its key
\* never leaves the key mapped to the value it read before that insert or
\* remove took effect
NoStaleWriteBack ==
  timed # Unused =>
    \A t \in Threads :
      (timed.th[t].op \in {"refresh", "extend"} /\ timed.th[t].pc = "done")
        => ~timed.th[t].stale

\* ---------------------------------------------------------------------
\* types/timedmap: len, is_empty and the cleaner
\* ---------------------------------------------------------------------

\* the least time the cleaner sleeps between two sweeps
SweepInterval == 1

\* len: the entries that are not expired
len(m, clock) == Cardinality({k \in Keys : m[k].some /\ ~is_expired_at(m[k], clock)})

\* is_empty: m.len() == 0 on the HashMap itself
is_empty(m) == Cardinality({k \in Keys : m[k].some}) = 0

\* the cleaner task between two sweeps
SleepingCleaner ==
  [pc |-> "sleeping", now |-> 0, keys |-> {}, last |-> 0, swept |-> FALSE,
   missed |-> FALSE, killed_live |-> FALSE]

InitSweep ==
  /\ now = 0
  /\ held = NoToken
  /\ verdict = NoVerdict
  /\ video = [id \in SongIds |-> NoFile]
  /\ metadata = [id \in SongIds |-> NoMetadata]
  /\ overrideFile = [id \in SongIds |-> NoOverride]
  /\ tmpPath = [p \in TmpPaths |-> 0]
  /\ inode = [s \in Sessions |-> <<>>]
  /\ sess = [s \in Sessions |-> IdleSession]
  /\ faults = 0
  /\ resp = NoResp
  /\ compensator = Unused
  /\ forward = Unused
  /\ ranged = Unused
  /\ timed \in {[inner |-> [k \in Keys |-> e], th |-> [t \in Threads |-> IdleThread],
                 cleaner |-> SleepingCleaner] : e \in TimedEntries}

\* is_empty under the read lock; live is the number of entries that are not
\* expired at that moment
IsEmpty(t) ==
  /\ timed.th[t].pc = "idle"
  /\ timed' = [timed EXCEPT !.th[t] =
                 [@ EXCEPT !.pc = "done", !.op = "is_empty",
                           !.result = Some(is_empty(timed.inner)),
                           !.live = Cardinality({k \in Keys :
                                       timed.inner[k].some /\ timed.inner[k].expire > now})]]
  /\ UNCHANGED <<now, held, verdict, cdnVars, ranged, compensator, forward>>

\* len under the read lock
Len_(t) ==
  /\ timed.th[t].pc = "idle"
  /\ timed' = [timed EXCEPT !.th[t] =
                 [@ EXCEPT !.pc = "done", !.op = "len",
                           !.result = Some(len(timed.inner, now)),
                           !.live = Cardinality({k \in Keys :
                                       timed.inner[k].some /\ timed.inner[k].expire > now})]]
  /\ UNCHANGED <<now, held, verdict, cdnVars, ranged, compensator, forward>>

\* the entries whose lifetime has elapsed at the instant `at` and that the
\* map m still holds
Elapsed(m, at) == {k \in Keys : m[k].some /\ m[k].expire <= at}

\* _start_cleaner: after the sleep the loop calls m.cleanup() without
\* awaiting it. The cleanup of TimedMap is an async fn: the call makes a
\* future that is dropped at once and its body never runs.
CleanupDropped ==
  LET c == timed.cleaner
  IN /\ c.pc = "sleeping"
     /\ now >= c.last + SweepInterval
     /\ timed' = [timed EXCEPT !.cleaner =
                    [c EXCEPT !.now = now, !.last = now, !.swept = TRUE,
                              !.missed = Elapsed(timed.inner, now) # {},
                              !.killed_live = FALSE]]
     /\ UNCHANGED <<now, held, verdict, cdnVars, ranged, compensator, forward>>

\* _start_cleaner with a Cleanup whose cleanup() runs when called (the trait
\* declares a plain fn). cleanup, first part: now = TS::now(), and under the
\* read lock the keys expired at now are collected; with none it returns
CleanupCollect ==
  LET c == timed.cleaner
      keys == {k \in Keys : timed.inner[k].some /\ is_expired_at(timed.inner[k], now)}
  IN /\ c.pc = "sleeping"
     /\ now >= c.last + SweepInterval
     /\ timed' = [timed EXCEPT !.cleaner =
                    IF keys = {}
                    THEN [c EXCEPT !.now = now, !.last = now, !.keys = {},
                                   !.swept = TRUE, !.missed = FALSE,
                                   !.killed_live = FALSE]
                    ELSE [c EXCEPT !.pc = "collected", !.now = now, !.keys = keys]]
     /\ UNCHANGED <<now, held, verdict, cdnVars, ranged, compensator, forward>>

\* cleanup, second part: under the write lock every collected key is removed
CleanupRemove ==
  LET c == timed.cleaner
      inner == [k \in Keys |-> IF k \in c.keys THEN NoValue ELSE timed.inner[k]]
  IN /\ c.pc = "collected"
     /\ timed' = [timed EXCEPT
                    !.inner = inner,
                    !.th = [u \in Threads |->
                              IF timed.th[u].key \in c.keys
                                 /\ timed.th[u].pc \in {"read", "expired", "fresh"}
                              THEN [timed.th[u] EXCEPT !.overlapped = TRUE]
                              ELSE timed.th[u]],
                    !.cleaner =
                      [c EXCEPT !.pc = "sleeping", !.last = now, !.keys = {},
                                !.swept = TRUE,
                                !.missed = Elapsed(inner, c.now) # {},
                                !.killed_live =
                                  \E k \in c.keys : /\ timed.inner[k].some
                                                    /\ timed.inner[k].expire > now]]
     /\ UNCHANGED <<now, held, verdict, cdnVars, ranged, compensator, forward>>

NextSweep ==
  \/ Tick
  \/ \E t \in Threads, key \in Keys, value \in Values, lifetime \in Lifetimes :
       Insert(t, key, value, lifetime)
  \/ \E t \in Threads, key \in Keys : Remove(t, key)
  \/ \E t \in Threads : IsEmpty(t)
  \/ \E t \in Threads : Len_(t)
  \/ CleanupDropped
  \/ CleanupCollect
  \/ CleanupRemove

SpecSweep == InitSweep /\ [][NextSweep]_vars

\* C21: when a sweep of the cleaner has ended, no entry whose lifetime had
\* elapsed when the sweep began is in the map, and the sweep removed no entry
\* whose lifetime had not elapsed
SweepRemovesExpired ==
  (timed # Unused /\ timed.cleaner.swept) =>
    (~timed.cleaner.missed /\ ~timed.cleaner.killed_live)

\* C22: is_empty() is true exactly when no entry of the map is non-expired,
\* as len() == 0 is
EmptyIffNoLive ==
  timed # Unused =>
    \A t \in Threads :
      (timed.th[t].pc = "done" /\ timed.th[t].op = "is_empty")
        => timed.th[t].result = Some(timed.th[t].live = 0)

\* ---------------------------------------------------------------------
\* wanna/audio_compensator.rs: the audio compensator
\* ---------------------------------------------------------------------

Workers == {1, 2}

\* app.opts.audio_compensation as format!("{}") prints it
AudioOffsets == {<<"1">>}

\* CompensatorTask
CompensatorTask(song_id, song_md5, input_video_path, audio_offset) ==
  [song_id |-> song_id, song_md5 |-> song_md5,
   input_video_path |-> input_video_path, audio_offset |-> audio_offset]

\* the tasks submitted: one song with its checksum, with another checksum and
\* with none
CompensatorTasks ==
  {CompensatorTask(id, md5, video_mp4(id), offset) :
     id \in SongIds, md5 \in {Some(<<"a">>), Some(<<"b">>), None},
     offset \in AudioOffsets}

\* CompensatorTask::same_task
same_task(a, b) ==
  /\ a.song_id = b.song_id
  /\ a.input_video_path = b.input_video_path
  /\ a.song_md5 = b.song_md5
  /\ a.audio_offset = b.audio_offset

\* compute_compensated_file_path: the derivative and the stage-1 file; a
\* missing md5 is looked up in the cache index, "" when that fails
compute_compensated_file_path(id, audio_offset, md5) ==
  LET looked == get_video_file_checksum_by_cached_video(id, get_video_file_path(id))
      m == IF md5.some THEN md5.value
           ELSE IF get_video_file_path(id) # "Unavailable" /\ looked.ok
             THEN looked.checksum
             ELSE <<>>
      stem == cache_path \o <<"/">> \o ToDecimal(id) \o <<"-">> \o m
                \o <<"-", "audio-offset", "-">> \o audio_offset
  IN [compensated |-> stem \o <<".mp4">>,
      stage1 |-> stem \o <<"-nocopy", ".mp4">>]

\* the files the compensator can write
CompensatorPaths ==
  UNION {{compute_compensated_file_path(t.song_id, t.audio_offset, t.song_md5).compensated,
          compute_compensated_file_path(t.song_id, t.audio_offset, t.song_md5).stage1} :
           t \in CompensatorTasks}

\* a worker before its call of submit_new_compensator_task
IdleWorker ==
  [pc |-> "idle", task |-> CompensatorTask(0, None, <<>>, <<>>),
   compensated |-> <<>>, stage1 |-> <<>>, result |-> "none", why |-> "none",
   served |-> "none", left |-> "none", dup |-> FALSE, outlasted |-> FALSE]

InitCompensator ==
  /\ now = 0
  /\ held = NoToken
  /\ verdict = NoVerdict
  /\ video = [id \in SongIds |-> NoFile]
  /\ metadata = [id \in SongIds |-> NoMetadata]
  /\ overrideFile = [id \in SongIds |-> NoOverride]
  /\ tmpPath = [p \in TmpPaths |-> 0]
  /\ inode = [s \in Sessions |-> <<>>]
  /\ sess = [s \in Sessions |-> IdleSession]
  /\ faults = 0
  /\ resp = NoResp
  /\ ranged = Unused
  /\ timed = Unused
  /\ forward = Unused
  /\ compensator = [file |-> [p \in CompensatorPaths |-> "absent"],
                    running_tasks |-> <<>>,
                    lock |-> 0,
                    w |-> [w \in Workers |-> IdleWorker]]

\* the workers inside compensate_one_task
Transforming(w) == compensator.w[w].pc \in {"stage1", "copy", "copying"}

\* submit_new_compensator_task up to the write lock: the derivative path and
\* the first existence check
Submit(w, task) ==
  LET paths == compute_compensated_file_path(task.song_id, task.audio_offset,
                                             task.song_md5)
      holder == compensator.lock
      r == [compensator.w[w] EXCEPT !.task = task,
                                    !.compensated = paths.compensated,
                                    !.stage1 = paths.stage1]
  IN /\ compensator.w[w].pc = "idle"
     /\ compensator' = [compensator EXCEPT !.w[w] =
          IF compensator.file[paths.compensated] # "absent"
          THEN [r EXCEPT !.pc = "done", !.result = "Ok",
                         !.served = compensator.file[paths.compensated]]
          ELSE [r EXCEPT !.pc = "waiting",
                         !.dup = /\ holder # 0
                                 /\ Transforming(holder)
                                 /\ same_task(task, compensator.w[holder].task)]]
     /\ UNCHANGED <<now, held, verdict, cdnVars, ranged, timed, forward>>

\* the second check and the list are skipped and the lock is not held
LockReleased(w) ==
  LET r == compensator.w[w]
  IN /\ r.pc = "waiting"
     /\ compensator' = [compensator EXCEPT
          !.running_tasks = Append(@, r.task),
          !.w[w] = [r EXCEPT !.pc = "stage1"]]
     /\ UNCHANGED <<now, held, verdict, cdnVars, ranged, timed, forward>>

\* running_tasks.write().await and what follows under the lock: the second
\* existence check, the same_task test, the push; the lock stays held while
\* compensate_one_task runs
Lock(w) ==
  LET r == compensator.w[w]
      running == \E i \in 1..Len(compensator.running_tasks) :
                   same_task(r.task, compensator.running_tasks[i])
  IN /\ r.pc = "waiting"
     /\ compensator.lock = 0
     /\ compensator' =
          IF compensator.file[r.compensated] # "absent"
          THEN [compensator EXCEPT !.w[w] =
                  [r EXCEPT !.pc = "done", !.result = "Ok",
                            !.served = compensator.file[r.compensated]]]
          ELSE IF running
          THEN [compensator EXCEPT !.w[w] =
                  [r EXCEPT !.pc = "done", !.result = "Err", !.why = "running"]]
          ELSE [compensator EXCEPT
                  !.lock = w,
                  !.running_tasks = Append(@, r.task),
                  !.w[w] = [r EXCEPT !.pc = "stage1"]]
     /\ UNCHANGED <<now, held, verdict, cdnVars, ranged, timed, forward>>

\* running_tasks.retain(|t| !t.same_task(&task)), the end of the call and
\* the release of the lock; the callers still waiting for a transform of the
\* same tuple have outlasted it
Release(c, w, result, why) ==
  [c EXCEPT
     !.lock = IF @ = w THEN 0 ELSE @,
     !.running_tasks = SelectSeq(@, LAMBDA t : ~same_task(t, c.w[w].task)),
     !.w = [u \in Workers |->
              IF u = w
              THEN [c.w[u] EXCEPT !.pc = "done", !.result = result, !.why = why,
                                  !.left = c.file[c.w[w].compensated],
                                  !.served = IF result = "Ok"
                                             THEN c.file[c.w[w].compensated]
                                             ELSE "none"]
              ELSE IF c.w[u].pc = "waiting" /\ c.w[u].dup
                      /\ same_task(c.w[u].task, c.w[w].task)
                THEN [c.w[u] EXCEPT !.outlasted = TRUE]
                ELSE c.w[u]]]

\* compensate_video_file: ffmpeg_audio_compensation writes the stage-1 file;
\* it can fail before or after it has created that file
Stage1(w, fail) ==
  LET r == compensator.w[w]
  IN /\ r.pc = "stage1"
     /\ compensator' =
          IF fail = "no"
          THEN [compensator EXCEPT !.file[r.stage1] = "complete",
                                   !.w[w] = [r EXCEPT !.pc = "copy"]]
          ELSE Release([compensator EXCEPT !.file[r.stage1] =
                          IF fail = "after_create" THEN "partial" ELSE @],
                       w, "Err", "stage1")
     /\ UNCHANGED <<now, held, verdict, cdnVars, ranged, timed, forward>>

\* ffmpeg_copy up to AVFormatContextOutput::create and write_header: the
\* derivative is created at its final path
CopyCreate(w, ok) ==
  LET r == compensator.w[w]
  IN /\ r.pc = "copy"
     /\ compensator' =
          IF ok
          THEN [compensator EXCEPT !.file[r.compensated] = "partial",
                                   !.w[w] = [r EXCEPT !.pc = "copying"]]
          ELSE Release(compensator, w, "Err", "copy")
     /\ UNCHANGED <<now, held, verdict, cdnVars, ranged, timed, forward>>

\* ffmpeg_copy: the packets and the trailer; then the stage-1 file is removed
CopyFinish(w, ok) ==
  LET r == compensator.w[w]
  IN /\ r.pc = "copying"
     /\ compensator' =
          IF ok
          THEN Release([compensator EXCEPT !.file[r.compensated] = "complete",
                                           !.file[r.stage1] = "absent"],
                       w, "Ok", "none")
          ELSE Release(compensator, w, "Err", "copy")
     /\ UNCHANGED <<now, held, verdict, cdnVars, ranged, timed, forward>>

NextCompensator ==
  \/ \E w \in Workers, task \in CompensatorTasks : Submit(w, task)
  \/ \E w \in Workers : Lock(w)
  \/ \E w \in Workers, fail \in {"no", "before_create", "after_create"} : Stage1(w, fail)
  \/ \E w \in Workers, ok \in BOOLEAN : CopyCreate(w, ok)
  \/ \E w \in Workers, ok \in BOOLEAN : CopyFinish(w, ok)

SpecCompensator == InitCompensator /\ [][NextCompensator]_vars

\* C23: no two workers transform the same (song id, audio offset, md5, input
\* path) tuple at the same time
CompensatorDeduplication ==
  compensator # Unused =>
    \A u, w \in Workers :
      (u # w /\ Transforming(u) /\ Transforming(w))
        => \/ compensator.w[u].task.song_id # compensator.w[w].task.song_id
           \/ compensator.w[u].task.song_md5 # compensator.w[w].task.song_md5
           \/ compensator.w[u].task.input_video_path # compensator.w[w].task.input_video_path
           \/ compensator.w[u].task.audio_offset # compensator.w[w].task.audio_offset

\* one worker transforms a tuple while another has submitted the same tuple
CompensatorDeduplicationWitness ==
  /\ compensator # Unused
  /\ \E u, w \in Workers :
       /\ u # w
       /\ Transforming(u)
       /\ compensator.w[w].pc = "waiting"
       /\ compensator.w[w].task = compensator.w[u].task

\* C24: a submission for a tuple whose transform is running returns an error
\* and does not wait for that transform to finish
DuplicateFailsFast ==
  compensator # Unused =>
    \A w \in Workers :
      compensator.w[w].dup =>
        /\ ~compensator.w[w].outlasted
        /\ compensator.w[w].pc = "done" => compensator.w[w].result = "Err"

\* C25: after a transform has failed, at stage 1 or at the copy, no file is
\* at the derivative path
FailedCompensationLeavesNothing ==
  compensator # Unused =>
    \A w \in Workers :
      (compensator.w[w].pc = "done" /\ compensator.w[w].why \in {"stage1", "copy"})
        => compensator.w[w].left = "absent"

\* ---------------------------------------------------------------------
\* forward: the SNI forwarder
\* ---------------------------------------------------------------------

\* tcp.rs BUFFER_SIZE (8192), scaled
BUFFER_SIZE == 2

\* the backends serve_l4_forward is configured with
forward_jd == "203.0.113.7:443"
forward_ud == "203.0.113.8:443"

\* the key and the value of both routes are exchanged
host_mappings_swapped ==
  [host \in {"jd.pypy.moe", "api.udon.dance"} |->
     IF host = "jd.pypy.moe" THEN forward_ud ELSE forward_jd]

\* serve_l4_forward: host_mappings
host_mappings ==
  [host \in {"jd.pypy.moe", "api.udon.dance"} |->
     IF host = "jd.pypy.moe" THEN forward_jd ELSE forward_ud]

\* what a client writes: a ClientHello ("H", then its SNI host) or something
\* else, then its payload
ClientScripts ==
  {<<"H", host, "x", "y">> : host \in {"jd.pypy.moe", "api.udon.dance", "other.host"}}
  \cup {<<"g", "x", "y">>, <<"H">>}

\* what the backend writes
BackendScripts == {<<"p", "q", "r">>}

\* the ClientHello parser on the peeked bytes: host, "incomplete" or "failure"
parse_client_hello(peeked, eof) ==
  IF peeked = <<>> THEN (IF eof THEN "failure" ELSE "incomplete")
  ELSE IF peeked[1] # "H" THEN "failure"
  ELSE IF Len(peeked) < 2 THEN (IF eof THEN "failure" ELSE "incomplete")
  ELSE peeked[2]

\* an accepted connection
Accepted(script, backend_script) ==
  [pc |-> "accepted",
   client |-> [script |-> script, sent |-> 0, closed |-> FALSE],
   backend |-> [script |-> backend_script, sent |-> 0, closed |-> FALSE],
   c2f_read |-> 0, b2f_read |-> 0,
   backend_in |-> <<>>, client_in |-> <<>>,
   target |-> "none", dialled |-> "none",
   client_sock |-> "open", backend_sock |-> "none", ended |-> "none"]

InitForward ==
  /\ now = 0
  /\ held = NoToken
  /\ verdict = NoVerdict
  /\ video = [id \in SongIds |-> NoFile]
  /\ metadata = [id \in SongIds |-> NoMetadata]
  /\ overrideFile = [id \in SongIds |-> NoOverride]
  /\ tmpPath = [p \in TmpPaths |-> 0]
  /\ inode = [s \in Sessions |-> <<>>]
  /\ sess = [s \in Sessions |-> IdleSession]
  /\ faults = 0
  /\ resp = NoResp
  /\ ranged = Unused
  /\ timed = Unused
  /\ compensator = Unused
  /\ forward \in {Accepted(script, backend_script) :
                    script \in ClientScripts, backend_script \in BackendScripts}

\* the bytes a peer has written and the forwarder has not read yet
Unread(peer, read) == SubSeq(peer.script, read + 1, peer.sent)

\* the client writes its next byte
ClientSend ==
  /\ forward.client_sock = "open"
  /\ ~forward.client.closed
  /\ forward.client.sent < Len(forward.client.script)
  /\ forward' = [forward EXCEPT !.client.sent = @ + 1]
  /\ UNCHANGED <<now, held, verdict, cdnVars, ranged, timed, compensator>>

\* the client closes its direction
ClientClose ==
  /\ ~forward.client.closed
  /\ forward' = [forward EXCEPT !.client.closed = TRUE]
  /\ UNCHANGED <<now, held, verdict, cdnVars, ranged, timed, compensator>>

\* the backend writes its next byte
BackendSend ==
  /\ forward.backend_sock = "open"
  /\ ~forward.backend.closed
  /\ forward.backend.sent < Len(forward.backend.script)
  /\ forward' = [forward EXCEPT !.backend.sent = @ + 1]
  /\ UNCHANGED <<now, held, verdict, cdnVars, ranged, timed, compensator>>

\* the backend closes its direction
BackendClose ==
  /\ forward.backend_sock = "open"
  /\ ~forward.backend.closed
  /\ forward' = [forward EXCEPT !.backend.closed = TRUE]
  /\ UNCHANGED <<now, held, verdict, cdnVars, ranged, timed, compensator>>

\* sni_proxy: the ClientHello is peeked and parsed, its SNI host is looked up
\* in the route map; a parse failure or an unknown host drops the connection
SniProxy ==
  LET peeked == Unread(forward.client, 0)
      sni == parse_client_hello(peeked, forward.client.closed)
  IN /\ forward.pc = "accepted"
     /\ sni # "incomplete"
     /\ forward' =
          IF sni \in DOMAIN host_mappings
          THEN [forward EXCEPT !.pc = "dial", !.target = host_mappings[sni]]
          ELSE [forward EXCEPT !.pc = "dropped", !.client_sock = "shut"]
     /\ UNCHANGED <<now, held, verdict, cdnVars, ranged, timed, compensator>>

\* the bytes pending on the client stream are discarded when the backend is
\* connected
DialDiscarding(ok) ==
  /\ forward.pc = "dial"
  /\ forward' =
       IF ok
       THEN [forward EXCEPT !.pc = "copy", !.dialled = forward.target,
                            !.backend_sock = "open",
                            !.c2f_read = forward.client.sent]
       ELSE [forward EXCEPT !.pc = "done", !.dialled = forward.target,
                            !.client_sock = "shut", !.ended = "dial"]
  /\ UNCHANGED <<now, held, verdict, cdnVars, ranged, timed, compensator>>

\* process_generic_stream: setup_target_stream; when it fails the client
\* socket is shut down
Dial(ok) ==
  /\ forward.pc = "dial"
  /\ forward' =
       IF ok
       THEN [forward EXCEPT !.pc = "copy", !.dialled = forward.target,
                            !.backend_sock = "open"]
       ELSE [forward EXCEPT !.pc = "done", !.dialled = forward.target,
                            !.client_sock = "shut", !.ended = "dial"]
  /\ UNCHANGED <<now, held, verdict, cdnVars, ranged, timed, compensator>>

\* copy_bidirectional, client to backend: up to BUFFER_SIZE bytes are read
\* and written
CopyClientToBackend(n) ==
  /\ forward.pc = "copy"
  /\ n <= Len(Unread(forward.client, forward.c2f_read))
  /\ forward' = [forward EXCEPT
       !.backend_in = @ \o SubSeq(Unread(forward.client, forward.c2f_read), 1, n),
       !.c2f_read = @ + n]
  /\ UNCHANGED <<now, held, verdict, cdnVars, ranged, timed, compensator>>

\* copy_bidirectional, backend to client
CopyBackendToClient(n) ==
  /\ forward.pc = "copy"
  /\ n <= Len(Unread(forward.backend, forward.b2f_read))
  /\ forward' = [forward EXCEPT
       !.client_in = @ \o SubSeq(Unread(forward.backend, forward.b2f_read), 1, n),
       !.b2f_read = @ + n]
  /\ UNCHANGED <<now, held, verdict, cdnVars, ranged, timed, compensator>>

\* copy_bidirectional ends: a read returned EOF, or a read or write failed
CopyEnd(why) ==
  /\ forward.pc = "copy"
  /\ why = "client_eof" =>
       (forward.client.closed /\ Unread(forward.client, forward.c2f_read) = <<>>)
  /\ why = "backend_eof" =>
       (forward.backend.closed /\ Unread(forward.backend, forward.b2f_read) = <<>>)
  /\ forward' = [forward EXCEPT !.pc = "shutdown", !.ended = why]
  /\ UNCHANGED <<now, held, verdict, cdnVars, ranged, timed, compensator>>

\* only the client socket is shut down
ShutdownSourceOnly ==
  /\ forward.pc = "shutdown"
  /\ forward' = [forward EXCEPT !.pc = "done", !.client_sock = "shut"]
  /\ UNCHANGED <<now, held, verdict, cdnVars, ranged, timed, compensator>>

\* process_generic_stream after the copy: join!(source_stream.try_shutdown(),
\* target_stream.try_shutdown()); try_shutdown shuts the write half, then the
\* whole socket (Shutdown::Both), and the socket is dropped
Shutdown ==
  /\ forward.pc = "shutdown"
  /\ forward' = [forward EXCEPT !.pc = "done", !.client_sock = "shut",
                                !.backend_sock = "shut"]
  /\ UNCHANGED <<now, held, verdict, cdnVars, ranged, timed, compensator>>

\* the steps of the forwarder task
Forwarder ==
  \/ SniProxy
  \/ \E ok \in BOOLEAN : Dial(ok)
  \/ \E n \in 1..BUFFER_SIZE : CopyClientToBackend(n)
  \/ \E n \in 1..BUFFER_SIZE : CopyBackendToClient(n)
  \/ \E why \in {"client_eof", "backend_eof", "error"} : CopyEnd(why)
  \/ Shutdown

NextForward ==
  \/ ClientSend
  \/ ClientClose
  \/ BackendSend
  \/ BackendClose
  \/ Forwarder

SpecForward == InitForward /\ [][NextForward]_vars

\* the forwarder task is scheduled as long as it can take a step
SpecForwardFair == SpecForward /\ WF_vars(Forwarder)

\* the SNI host of the ClientHello the client writes, "failure" when what it
\* writes is no ClientHello
ScriptSni == parse_client_hello(forward.client.script, TRUE)

\* C26: a backend is dialled only when the ClientHello parses and its SNI
\* host is a key of the route map, and then it is the backend mapped to
\* that host; a connection dropped for a parse failure or an unknown host
\* has its client socket closed and no backend was dialled
SniRouting ==
  /\ forward.dialled # "none" =>
       /\ ScriptSni \in {"jd.pypy.moe", "api.udon.dance"}
       /\ ScriptSni = "jd.pypy.moe" => forward.dialled = forward_jd
       /\ ScriptSni = "api.udon.dance" => forward.dialled = forward_ud
  /\ forward.backend_sock # "none" => forward.dialled # "none"
  /\ forward.pc = "dropped" =>
       /\ forward.dialled = "none"
       /\ forward.backend_sock = "none"
       /\ forward.client_sock = "shut"
  /\ (ScriptSni \notin {"jd.pypy.moe", "api.udon.dance"}
        /\ forward.pc # "accepted") => forward.pc = "dropped"

SniRoutingWitness ==
  /\ ScriptSni = "api.udon.dance"
  /\ forward.dialled = forward_ud
  /\ forward.backend_sock = "open"

\* the bytes a peer has written so far
Written(peer) == SubSeq(peer.script, 1, peer.sent)

\* C27 as stated: when a forwarded connection is over, the backend has
\* received every byte the client wrote and the client every byte the
\* backend wrote
PassThroughExact ==
  (forward.pc = "done" /\ forward.backend_sock # "none") =>
    /\ forward.backend_in = Written(forward.client)
    /\ forward.client_in = Written(forward.backend)

\* C27: on a forwarded connection what the backend has received is at every
\* moment a prefix of what the client wrote, ClientHello first, and what the
\* client has received is a prefix of what the backend wrote; the direction
\* whose EOF ended the copy was delivered in full
PassThrough ==
  forward.backend_sock # "none" =>
    /\ IsPrefix(forward.backend_in, Written(forward.client))
    /\ IsPrefix(forward.client_in, Written(forward.backend))
    /\ forward.ended = "client_eof" => forward.backend_in = Written(forward.client)
    /\ forward.ended = "backend_eof" => forward.client_in = Written(forward.backend)

PassThroughWitness ==
  /\ forward.pc = "done"
  /\ forward.ended = "client_eof"
  /\ forward.backend_in = forward.client.script
  /\ Len(forward.backend_in) = 4
  /\ forward.backend_in[1] = "H"
  /\ Len(forward.client_in) = 2

\* on a forwarded connection a side has closed its direction or the copy
\* has failed
EitherClosed ==
  /\ forward.backend_sock # "none"
  /\ \/ forward.client.closed
     \/ forward.backend.closed
     \/ forward.ended = "error"

\* both sockets are shut down, read and write
FullyShut == forward.client_sock = "shut" /\ forward.backend_sock = "shut"

\* the backend could not be dialled
DialFailed == forward.dialled # "none" /\ forward.backend_sock = "none"

\* C28: on a forwarded connection, once a side has closed its direction or
\* the copy has failed, both sockets are eventually fully shut down; when
\* the backend cannot be dialled the client socket is fully shut down
ClosePropagation ==
  /\ EitherClosed ~> FullyShut
  /\ [](DialFailed => forward.client_sock = "shut")

ClosePropagationWitness ==
  /\ forward.pc = "done"
  /\ forward.ended = "backend_eof"
  /\ ~forward.client.closed
  /\ FullyShut

\* ---------------------------------------------------------------------
\* song ids on their way to the cache index
\* ---------------------------------------------------------------------

\* SongId = u32, scaled
U32Modulus == 16

\* `song_id as SongId` of an i32
as_SongId(song_id) == song_id % U32Modulus

\* the id part of a request path or query
IdTexts ==
  {<<"0">>, <<"1">>, <<"-", "1">>, <<"+", "0">>, <<"0", "0">>, <<"x">>, <<>>}

\* the songId of a queue item in the tailed log
QueueSongIds == {-2, -1, 0, 1}

\* a call of a cache index operation: the operation, the id it is given,
\* the value the id was made from and whether that value is negative
IndexCall(op, id, raw, negative) ==
  [op |-> op, id |-> id, raw |-> raw, negative |-> negative]

\* the answer of a token handler and the cache index calls it made
Answer(route, raw, status, index_ops) ==
  [route |-> route, raw |-> raw, status |-> status, index_ops |-> index_ops]

InitSentinel ==
  /\ now = 0
  /\ held = NoToken
  /\ verdict = NoVerdict
  /\ video = [id \in SongIds |-> NoFile]
  /\ metadata = [id \in SongIds |-> NoMetadata]
  /\ overrideFile = [id \in SongIds |-> NoOverride]
  /\ tmpPath = [p \in TmpPaths |-> 0]
  /\ inode = [s \in Sessions |-> <<>>]
  /\ sess = [s \in Sessions |-> IdleSession]
  /\ faults = 0
  /\ resp = Answer("none", <<>>, 0, {})
  /\ ranged = Unused
  /\ timed = Unused
  /\ forward = Unused
  /\ compensator \in {[pc |-> "watching", audio_compensation |-> a,
                       item |-> 1, index_ops |-> {}] : a \in {0, 1}}

\* GET /api/{v}/videos/{id_mp4} for any id text: the client address is
\* required, the id is parsed, then serve_token is called with it; nothing
\* is cached under the id, so the answer redirects to the origin
AyaVideosAnyId(id_mp4, remote) ==
  LET id == parse_u32(trim_end_matches(id_mp4, <<".", "m", "p", "4">>))
  IN /\ resp' =
          IF remote = NoRemote \/ ~id.ok THEN Answer("videos", id_mp4, 400, {})
          ELSE Answer("videos", id_mp4, 302,
                      {IndexCall("serve_token", id.val, id_mp4, id_mp4[1] = "-")})
     /\ UNCHANGED <<now, held, verdict, video, metadata, overrideFile, tmpPath,
                    inode, sess, faults, ranged, timed, compensator, forward>>

\* GET /Api/Songs/play?id={id} for any id text
WannaDancePlayAnyId(query_id, remote, user_agent) ==
  LET id == parse_u32(query_id.value)
  IN /\ resp' =
          IF ~query_id.some \/ ~id.ok \/ remote = NoRemote \/ ~user_agent.some
          THEN Answer("play", query_id.value, 400, {})
          ELSE Answer("play", query_id.value, 302,
                      {IndexCall("serve_token", id.val, query_id.value,
                                 query_id.value[1] = "-")})
     /\ UNCHANGED <<now, held, verdict, video, metadata, overrideFile, tmpPath,
                    inode, sess, faults, ranged, timed, compensator, forward>>

\* serve_audio_compensator: one item of a Queue log line
QueueItem(song_id) ==
  /\ compensator' =
       IF compensator.audio_compensation = 0 \/ song_id = -1
       THEN [compensator EXCEPT !.item = song_id]
       ELSE [compensator EXCEPT !.item = song_id,
               !.index_ops = @ \cup
                 {IndexCall("get_video_file_path", as_SongId(song_id), song_id,
                             song_id < 0)}]
  /\ UNCHANGED <<now, held, verdict, cdnVars, ranged, timed, forward>>

NextSentinel ==
  \/ \E id_text \in IdTexts, suffix \in {<<>>, <<".", "m", "p", "4">>},
        remote \in Remotes \cup {NoRemote} :
        AyaVideosAnyId(id_text \o suffix, remote)
  \/ \E query_id \in {None} \cup {Some(id_text) : id_text \in IdTexts},
        remote \in Remotes \cup {NoRemote},
        user_agent \in {None, Some(<<97>>)} :
        WannaDancePlayAnyId(query_id, remote, user_agent)
  \/ \E song_id \in QueueSongIds : QueueItem(song_id)

SpecSentinel == InitSentinel /\ [][NextSentinel]_vars

\* C29: no cache index operation is invoked with song id 0 or with an id
\* made from a negative value
SentinelNeverIndexed ==
  \A call \in resp.index_ops \cup compensator.index_ops :
    /\ call.id # 0
    /\ ~call.negative

\* ---------------------------------------------------------------------
\* the checksum of an override entry while the file is rewritten
\* ---------------------------------------------------------------------

\* how often the override file is rewritten
MaxRewrites == 3

\* a checksum call: its result, and the mtime and the generation of the file
\* it saw
NoCall == [called |-> FALSE, checksum |-> NoChecksum, mtime |-> 0, generation |-> 0]

InitOverride ==
  /\ now = 0
  /\ held = NoToken
  /\ verdict = NoVerdict
  /\ video \in [SongIds -> IndexVideos]
  /\ metadata = [id \in SongIds |-> IF video[id].exists THEN Metadata(<<"a">>)
                                     ELSE NoMetadata]
  /\ overrideFile = [id \in SongIds |->
                       [exists |-> TRUE, mtime |-> 0, generation |-> 0]]
  /\ tmpPath = [p \in TmpPaths |-> 0]
  /\ inode = [s \in Sessions |-> <<>>]
  /\ sess = [s \in Sessions |-> IdleSession]
  /\ faults = 0
  /\ resp = [prev |-> NoCall, last |-> NoCall]
  /\ ranged = Unused
  /\ timed = Unused
  /\ compensator = Unused
  /\ forward = Unused

\* an operator rewrites the override file: the file system stamps it with
\* the time of the write
RewriteOverride(id) ==
  /\ overrideFile[id].generation < MaxRewrites
  /\ overrideFile' = [overrideFile EXCEPT ![id].mtime = now,
                                          ![id].generation = @ + 1]
  /\ UNCHANGED <<now, held, verdict, video, metadata, tmpPath, inode, sess,
                 faults, resp, otherVars>>

\* get_video_file_path, then get_video_file_checksum_by_cached_video
ChecksumCall(id) ==
  LET cached == get_video_file_path(id)
  IN /\ resp' = [prev |-> resp.last,
                 last |-> [called |-> TRUE,
                           checksum |-> get_video_file_checksum_by_cached_video(id, cached),
                           mtime |-> overrideFile[id].mtime,
                           generation |-> overrideFile[id].generation]]
     /\ UNCHANGED <<now, held, verdict, video, metadata, overrideFile, tmpPath,
                    inode, sess, faults, otherVars>>

NextOverride ==
  \/ Tick
  \/ \E id \in SongIds : RewriteOverride(id)
  \/ \E id \in SongIds : ChecksumCall(id)

SpecOverride == InitOverride /\ [][NextOverride]_vars

\* C30: the checksum of an override entry is "override" followed by the
\* file's mtime in seconds; two calls that saw the same file give the same
\* checksum, two calls with a rewrite in between give different checksums
OverrideChecksum ==
  /\ resp.last.called =>
       /\ resp.last.checksum.ok
       /\ resp.last.checksum.checksum =
            <<"o", "v", "e", "r", "r", "i", "d", "e">> \o ToDecimal(resp.last.mtime)
  /\ (resp.prev.called /\ resp.last.called) =>
       /\ resp.prev.generation = resp.last.generation
            => resp.prev.checksum = resp.last.checksum
       /\ resp.prev.generation # resp.last.generation
            => resp.prev.checksum # resp.last.checksum

\* ---------------------------------------------------------------------
\* the rand field and its decoding
\* ---------------------------------------------------------------------

\* the longest User-Agent
MaxUa == 3

\* User-Agent bytes: ' ', 'a', and '>' and '?', which as the third byte of a
\* group are encoded as '-' and '_'
UaBytes == {32, 97, 62, 63}

RECURSIVE SeqsUpTo(_, _)
SeqsUpTo(S, n) ==
  IF n = 0 THEN {<<>>}
  ELSE LET shorter == SeqsUpTo(S, n - 1)
       IN shorter \cup {Append(q, x) : q \in shorter, x \in S}

NoDecode == [ok |-> FALSE, bytes |-> <<>>]

\* the value of a character of the URL-safe alphabet, 64 for any other
SextetOf(c) ==
  IF \E i \in 1..Len(Base64UrlAlphabet) : Base64UrlAlphabet[i] = c
  THEN (CHOOSE i \in 1..Len(Base64UrlAlphabet) : Base64UrlAlphabet[i] = c) - 1
  ELSE 64

\* the bytes of a sequence of sextets whose length is not 1 modulo 4
RECURSIVE Octets(_)
Octets(x) ==
  IF Len(x) = 0 THEN <<>>
  ELSE IF Len(x) = 2 THEN <<x[1] * 4 + x[2] \div 16>>
  ELSE IF Len(x) = 3
    THEN <<x[1] * 4 + x[2] \div 16, (x[2] % 16) * 16 + x[3] \div 4>>
  ELSE <<x[1] * 4 + x[2] \div 16, (x[2] % 16) * 16 + x[3] \div 4,
         (x[3] % 4) * 64 + x[4]>>
       \o Octets(SubSeq(x, 5, Len(x)))

\* base64_url::decode: URL-safe alphabet, no padding; a character outside the
\* alphabet, a length of 1 modulo 4 and non-zero trailing bits are errors
base64_url_decode(t) ==
  LET x == [i \in 1..Len(t) |-> SextetOf(t[i])]
      tail == Len(t) % 4
  IN IF \E i \in 1..Len(x) : x[i] = 64 THEN NoDecode
     ELSE IF tail = 1 THEN NoDecode
     ELSE IF tail = 2 /\ x[Len(x)] % 16 # 0 THEN NoDecode
     ELSE IF tail = 3 /\ x[Len(x)] % 4 # 0 THEN NoDecode
     ELSE [ok |-> TRUE, bytes |-> Octets(x)]

InitRand ==
  /\ now = 0
  /\ held \in {[kind |-> "ua", user_agent |-> ua, rand |-> <<>>, decode |-> NoDecode] :
                 ua \in SeqsUpTo(UaBytes, MaxUa)}
  /\ verdict = NoVerdict
  /\ IdleCdn

\* tests::test_rand: the rand of a User-Agent is computed and decoded
TestRand ==
  /\ held.kind = "ua"
  /\ held' = [held EXCEPT
       !.kind = "rand",
       !.rand = generate_rand_from_user_agent(held.user_agent),
       !.decode = base64_url_decode(generate_rand_from_user_agent(held.user_agent))]
  /\ UNCHANGED <<now, verdict, cdnVars, otherVars>>

NextRand == TestRand

SpecRand == InitRand /\ [][NextRand]_vars

\* C31: URL-safe base64 decoding of the rand of a User-Agent gives the bytes
\* of the User-Agent
RandLossless ==
  held.kind = "rand" =>
    /\ held.decode.ok
    /\ held.decode.bytes = held.user_agent

\* a three-byte User-Agent with '-' or '_' in its rand was decoded
RandLosslessWitness ==
  /\ held.kind = "rand"
  /\ Len(held.user_agent) = 3
  /\ \E i \in 1..Len(held.rand) : held.rand[i] \in {"-", "_"}
  /\ held.decode.bytes = held.user_agent

\* ---------------------------------------------------------------------
\* the upstream request of a cache miss: src/src/cdn/proxy/mod.rs
\* ---------------------------------------------------------------------

Header(name, value) == [name |-> name, value |-> value]

\* the headers a client can send with GET /files/{date}/{file}; a HeaderMap
\* holds lower-case names
ClientHeaders ==
  {Header("host", <<"nya.xin.moe">>), Header("user-agent", <<"VRChat">>),
   Header("range", <<"bytes=1-">>), Header("if-none-match", <<"etag">>),
   Header("if-modified-since", <<"date">>), Header("accept", <<"any">>)}

\* ProxyOpts of the cache-miss handler
ProxyOpts(host_override, allow_304) ==
  [host_override |-> Some(host_override),
   user_agent_override |-> Some(<<"WannaDanceSelfHostedCDN">>),
   allow_304 |-> allow_304]

\* proxy_and_inspecting, the header loop: Host and User-Agent are rewritten
\* when an override is set, the conditional headers are dropped unless 304 is
\* allowed, every other header is copied
upstream_headers(headers, proxy_opts) ==
  {IF h.name = "host" /\ proxy_opts.host_override.some
     THEN Header("host", proxy_opts.host_override.value)
   ELSE IF h.name = "user-agent" /\ proxy_opts.user_agent_override.some
     THEN Header("user-agent",
                 h.value \o <<" ">> \o proxy_opts.user_agent_override.value)
   ELSE h :
   h \in {g \in headers :
            ~(g.name \in {"if-none-match", "if-modified-since"}
                /\ ~proxy_opts.allow_304)}}

\* the file the upstream holds
UpstreamFile == <<1, 2, 3>>

IdleProxy ==
  [pc |-> "idle", headers |-> {}, allow_304 |-> FALSE, dump_opts |-> FALSE,
   hdr |-> {}, status |-> 0, download_tmp |-> <<>>]

InitProxy ==
  /\ now = 0
  /\ held = NoToken
  /\ verdict = NoVerdict
  /\ video = [id \in SongIds |-> NoFile]
  /\ metadata = [id \in SongIds |-> NoMetadata]
  /\ overrideFile = [id \in SongIds |-> NoOverride]
  /\ tmpPath = [p \in TmpPaths |-> 0]
  /\ inode = [s \in Sessions |-> <<>>]
  /\ sess = [s \in Sessions |-> IdleSession]
  /\ faults = 0
  /\ resp = IdleProxy
  /\ ranged = Unused
  /\ timed = Unused
  /\ compensator = Unused
  /\ forward = Unused

\* GET /files/{date}/{file}?e=..&s=.. on a cache miss: proxy_and_inspecting
\* with the request's headers and a download session
WannaDancePlayCacheMiss(headers, allow_304) ==
  LET host_override ==
        IF Header("host", <<"nya.xin.moe">>) \in headers THEN <<"nya.xin.moe">>
        ELSE <<"play.udon.dance">>
  IN /\ resp.pc = "idle"
     /\ resp' = [resp EXCEPT
          !.pc = "requested", !.headers = headers, !.allow_304 = allow_304,
          !.dump_opts = TRUE,
          !.hdr = upstream_headers(headers, ProxyOpts(host_override, allow_304))]
     /\ UNCHANGED <<now, held, verdict, video, metadata, overrideFile, tmpPath,
                    inode, sess, faults, otherVars>>

\* the upstream answers and response_to_reply tees the body into download_tmp:
\* a server that supports ranges answers a request with Range: bytes=1- with
\* 206 and the bytes from offset 1, any other request with 200 and the file
UpstreamAnswers(supports_range) ==
  LET partial == supports_range /\ Header("range", <<"bytes=1-">>) \in resp.hdr
  IN /\ resp.pc = "requested"
     /\ resp' = [resp EXCEPT
          !.pc = "teed",
          !.status = IF partial THEN 206 ELSE 200,
          !.download_tmp = IF partial THEN Tail(UpstreamFile) ELSE UpstreamFile]
     /\ UNCHANGED <<now, held, verdict, video, metadata, overrideFile, tmpPath,
                    inode, sess, faults, otherVars>>

NextProxy ==
  \/ \E headers \in SUBSET ClientHeaders, allow_304 \in BOOLEAN :
       WannaDancePlayCacheMiss(headers, allow_304)
  \/ \E supports_range \in BOOLEAN : UpstreamAnswers(supports_range)

SpecProxy == InitProxy /\ [][NextProxy]_vars

\* C32: an upstream request issued with a download session carries no Range
\* header, and the body teed into download_tmp is the whole file
RangelessUpstreamFetch ==
  /\ (resp.pc # "idle" /\ resp.dump_opts) => \A h \in resp.hdr : h.name # "range"
  /\ resp.pc = "teed" => resp.download_tmp = UpstreamFile

\* ---------------------------------------------------------------------
\* the end of a Fetcher session
\* ---------------------------------------------------------------------

\* C33: once the publish step of a session has ended in Published or
\* ChecksumMismatch, no later chunk of the session leads to another fsync
\* and publish attempt
PublishAtMostOnce ==
  [][\A s \in Sessions :
       (sess[s].pc = "streaming" /\ sess[s].last \in {"Published", "ChecksumMismatch"})
         => sess'[s].pc # "sync"]_vars

\* C34: a session whose upstream body has ended is over without a panic,
\* whether total_written had reached expected_size or not
SessionEndsNormally ==
  \A s \in Sessions : sess[s].pc = "done" => sess[s].end # "panicked"

\* no other session is in flight
NoneElseInFlight(s) ==
  \A t \in Sessions \ {s} : sess[t].pc \in {"idle", "done"}

\* one step of a session while no other session is in flight; no filesystem
\* operation fails
OneAtATime(s) ==
  /\ NoneElseInFlight(s)
  /\ Fetcher(s, TRUE, OnePort, OneBasename, ConcurrentEtags, Sizes, ConcurrentChunks)

\* the sessions run one after another, from the same port for the same file
NextLeftover == \E s \in Sessions : OneAtATime(s)

SpecLeftover == InitFetch /\ [][NextLeftover]_vars

\* C35: when a session enters the publish step, the file at download_tmp
\* holds exactly the bytes the session received from the upstream
TempFileOwnBytes ==
  \A s \in Sessions :
    (sess[s].pc = "publish" /\ tmpPath[sess[s].download_tmp] # 0) =>
      inode[tmpPath[sess[s].download_tmp]] = sess[s].recv

\* session s has download_tmp open and tees into it
HasTempOpen(s) == sess[s].pc \in {"streaming", "sync", "publish", "copy_open", "copying",
                               "write_meta"}

\* C36: no two sessions in flight at the same time write to the same
\* download_tmp path
NoSharedTempPath ==
  \A s \in Sessions : \A t \in Sessions \ {s} :
    (HasTempOpen(s) /\ HasTempOpen(t)) => sess[s].download_tmp # sess[t].download_tmp

\* C37: the removal that get_value makes after it has seen an expired clone
\* never takes a key whose entry at that moment is not expired
RemovalSparesLive ==
  [][\A t \in Threads :
       LET r == timed.th[t]
       IN (/\ r.pc = "expired"
           /\ timed'.th[t].pc = "done"
           /\ timed.inner[r.key].some
           /\ ~is_expired_at(timed.inner[r.key], now))
            => timed'.inner[r.key] = timed.inner[r.key]]_vars

\* C38: a call of submit_new_compensator_task that returns the derivative
\* path returns the path of a file whose transform has finished successfully
DerivativeServedComplete ==
  compensator # Unused =>
    \A w \in Workers :
      compensator.w[w].result = "Ok" => compensator.w[w].served = "complete"

\* C39: for every Range header that get_range_params accepts and every file
\* size, 0 included, no u64 operation overflows, the served range satisfies
\* 0 <= start <= end < size, and the body stream never reads past the end
RangeArithmeticSafe ==
  ranged.pc \notin {"unused", "idle", "rejected"} =>
    /\ ranged.pc \notin {"panicked", "aborted"}
    /\ 0 <= ranged.content_range[1]
    /\ ranged.content_range[1] <= ranged.content_range[2]
    /\ ranged.content_range[2] < Len(ranged.file)

\* ---------------------------------------------------------------------
\* cdn/receipt.rs: the receipt service
\* ---------------------------------------------------------------------

\* ReceiptServiceImpl.max_receipts_per_user_per_sender, a configuration value
max_receipts_per_user_per_sender == 2

\* ReceiptServiceImpl.default_expire in seconds, a configuration value
default_expire == 2

\* the concurrent create_receipt calls
Callers == {1, 2, 3}

\* the values uuid::Uuid::new_v4() draws from
Uuids == {1, 2, 3}

Rooms == {"r1", "r2"}

\* an Option is the empty set or a singleton
ReceiptSenders == {{}, {"s"}}

\* Either<SongId, String>: Left is a song id, Right a song url
SongLeft(id) == [song_id |-> {id}, song_url |-> {}]

SongRight(url) == [song_id |-> {}, song_url |-> {url}]

ReceiptSongs == {SongLeft(1), SongRight("u")}

\* a task that has not called create_receipt yet
IdleCaller ==
  [pc |-> "idle", room_id |-> "", target |-> "", song |-> SongLeft(0),
   sender |-> {}, uuids |-> {}, result |-> "none"]

InitReceipt ==
  /\ now = 0
  /\ held = NoToken
  /\ verdict = NoVerdict
  /\ video = [id \in SongIds |-> NoFile]
  /\ metadata = [id \in SongIds |-> NoMetadata]
  /\ overrideFile = [id \in SongIds |-> NoOverride]
  /\ tmpPath = [p \in TmpPaths |-> 0]
  /\ inode = [s \in Sessions |-> <<>>]
  /\ sess = [s \in Sessions |-> IdleSession]
  /\ faults = 0
  /\ resp = NoResp
  /\ compensator = Unused
  /\ forward = Unused
  /\ ranged = Unused
  /\ timed = [inner |-> {}, call |-> [c \in Callers |-> IdleCaller]]

\* TimedMap::snapshot: the values of the entries that are not expired
snapshot(inner, clock) == {e.value : e \in {x \in inner : ~is_expired_at(x, clock)}}

\* ReceiptServiceImpl::receipts: the live receipts of a room
receipts(inner, room_id, clock) ==
  {r \in snapshot(inner, clock) : r.room_id = room_id}

\* the tests of create_receipt on its snapshot: the sender has reached the
\* maximum for the target, or has already sent the song id or the song url
Refused(snapshots, target, song, sender) ==
  LET user_receipts == {r \in snapshots : r.target = target}
      from_this_sender == {r \in user_receipts : r.sender = sender}
  IN /\ from_this_sender # {}
     /\ \/ Cardinality(from_this_sender) >= max_receipts_per_user_per_sender
        \/ /\ song.song_id # {}
           /\ \E r \in from_this_sender : r.song_id = song.song_id
        \/ /\ song.song_url # {}
           /\ \E r \in from_this_sender : r.song_url = song.song_url

\* create_receipt up to the end of its tests: the snapshot is taken under
\* the read lock of the map, which is released before the tests run
CreateReceiptSnapshot(c, room_id, target, song, sender) ==
  LET snapshots == receipts(timed.inner, room_id, now)
  IN /\ timed.call[c].pc = "idle"
     /\ timed' = [timed EXCEPT !.call[c] =
                    IF Refused(snapshots, target, song, sender)
                    THEN [@ EXCEPT !.pc = "done", !.result = "Err"]
                    ELSE [@ EXCEPT !.pc = "checked", !.room_id = room_id,
                                   !.target = target, !.song = song,
                                   !.sender = sender,
                                   !.uuids = {r.receipt_id : r \in snapshots}]]
     /\ UNCHANGED <<now, held, verdict, cdnVars, ranged, compensator, forward>>

\* the rest of create_receipt: a uuid that is not in the snapshot, the
\* receipt, and insert under the write lock, which overwrites the entry of
\* an equal key
CreateReceiptInsert(c, uuid) ==
  LET r == timed.call[c]
      receipt == [receipt_id |-> uuid, room_id |-> r.room_id, target |-> r.target,
                  created_at |-> now, song_id |-> r.song.song_id,
                  song_url |-> r.song.song_url, sender |-> r.sender]
  IN /\ r.pc = "checked"
     /\ uuid \notin r.uuids
     /\ timed' = [timed EXCEPT
                    !.inner = {e \in @ : e.value.receipt_id # uuid}
                                \cup {Value(receipt, default_expire, now)},
                    !.call[c] = [IdleCaller EXCEPT !.pc = "done", !.result = "Ok"]]
     /\ UNCHANGED <<now, held, verdict, cdnVars, ranged, compensator, forward>>

\* the cleaner task started by ReceiptServiceImpl::new removes the entries
\* that are expired
ReceiptCleanup ==
  /\ \E e \in timed.inner : is_expired_at(e, now)
  /\ timed' = [timed EXCEPT !.inner = {e \in @ : ~is_expired_at(e, now)}]
  /\ UNCHANGED <<now, held, verdict, cdnVars, ranged, compensator, forward>>

NextReceipt ==
  \/ Tick
  \/ \E c \in Callers, room_id \in Rooms, song \in ReceiptSongs,
        sender \in ReceiptSenders :
       CreateReceiptSnapshot(c, room_id, "t", song, sender)
  \/ \E c \in Callers, uuid \in Uuids : CreateReceiptInsert(c, uuid)
  \/ ReceiptCleanup

SpecReceipt == InitReceipt /\ [][NextReceipt]_vars

\* the live receipts of a room from a sender to a target
LiveReceipts(room_id, target, sender) ==
  {r \in receipts(timed.inner, room_id, now) :
     r.target = target /\ r.sender = sender}

\* C40: for every room, target and sender the live receipts from the sender
\* to the target are at most max_receipts_per_user_per_sender, and no two of
\* them carry the same song id or the same song url
ReceiptLimits ==
  timed # Unused =>
    \A room_id \in Rooms, sender \in ReceiptSenders :
      LET live == LiveReceipts(room_id, "t", sender)
      IN /\ Cardinality(live) <= max_receipts_per_user_per_sender
         /\ \A a, b \in live :
              (a # b /\ a.song_id # {}) => a.song_id # b.song_id
         /\ \A a, b \in live :
              (a # b /\ a.song_url # {}) => a.song_url # b.song_url

====
